---- MODULE Spec2Model ----
(***************************************************************************)
(* Trading pipeline of the Polymarket bot: the signal engine               *)
(* (signal_engine.py), the risk guard (risk_guard.py), the order executor  *)
(* (executor.py), the position resolver (position_resolver.py) and the     *)
(* document store (db.py) they share.                                      *)
(*                                                                         *)
(* Numbers.  The program computes in floats.  The model computes in fixed  *)
(* point: money (USD), prices and token counts are integers in units of    *)
(* 1/Scale, so the float 1.0 is Scale.  Percent settings are integers in   *)
(* hundredths of a percent (2.0 percent is 200).  The settings and the     *)
(* prices the model draws are chosen such that every division the program  *)
(* performs on them is exact.                                              *)
(*                                                                         *)
(* Documents.  A MongoDB document is a function from field names to        *)
(* values; a collection keyed by a unique field is a function from key to  *)
(* document, whose DOMAIN holds the keys that have a document.  Python's   *)
(* None is the empty set and a present optional value v is {v}.            *)
(*                                                                         *)
(* Tasks.  The executor and the resolver are asyncio tasks: each action    *)
(* is the code of one task between two suspension points at which the      *)
(* other task can observe or change the store.  The scanner (scanner.py)   *)
(* feeds the signal engine through a queue: its arb scan loop, and its     *)
(* watch-list feeder and hot loop, which share the watch-list.             *)
(* TradingBot.start and TradingBot.stop (main.py) create the tasks and     *)
(* clear their running flags; the price feed (binance_feed.py) keeps its   *)
(* WebSocket connection.                                                   *)
(***************************************************************************)
EXTENDS Integers, Sequences, FiniteSets, TLC

\* The fixed-point unit: the float 1.0 (one dollar, one token, price 1.0).
Scale == 1000

\* Number of signals the signal engine puts on the signal queue in a run.
MaxSignals == 2

\* Number of calls an outside caller makes on the risk guard's public
\* methods (record_trade_result, halt_trading, resume_trading) in a run.
MaxApiCalls == 2

\* Capacities of the two queues.  main.py builds them with maxsize=1000
\* (market_queue) and maxsize=100 (signal_queue); the code depends on a
\* capacity only through a put finding the queue full or not, and the model
\* keeps queues this short so that they do fill.
MarketQueueCapacity == 2

SignalQueueCapacity == 2

\* BinanceFeed keeps the last 60 prices of a symbol; the model keeps this
\* many, so that the oldest one is dropped within a run.
HistoryLimit == 3

\* Number of consecutive silent windows of the price feed a run follows.
MaxSilent == 3

None == {}

Some(v) == {v}

\* dict.get(key, default)
Get(doc, key, default) == IF key \in DOMAIN doc THEN doc[key] ELSE default

\* The document after {"$set": update}: fields of update replace or extend doc.
SetFields(doc, update) ==
    [k \in (DOMAIN doc) \cup (DOMAIN update) |->
        IF k \in DOMAIN update THEN update[k] ELSE doc[k]]

RECURSIVE SumSeq(_)
SumSeq(s) == IF s = <<>> THEN 0 ELSE Head(s) + SumSeq(Tail(s))

Abs(x) == IF x < 0 THEN -x ELSE x

\* Variant of a queue that takes any number of items.
AlwaysRoom(queue, n, maxsize) == TRUE

\* asyncio.Queue.put returns only when the queue is not full: n puts have
\* all returned once the queue held n items fewer than maxsize.
HasRoom(queue, n, maxsize) == Len(queue) + n <= maxsize

\* Variant of the get that hands out the newest item.
Newest(queue) == queue[Len(queue)]

\* asyncio.Queue.get: the item that was put first
Oldest(queue) == Head(queue)

VARIABLES
    settings,           \* config.settings: read-only after start
    signal_queue,       \* asyncio.Queue between signal engine and executor
    issued,             \* number of signals the signal engine has emitted
    positions,          \* store collection "positions", keyed by position_id
    pnl_daily,          \* store collection "pnl_daily": today's document
    events_log,         \* store collection "events_log"
    consecutive_fails,  \* RiskGuard.consecutive_fails
    trading_halted,     \* RiskGuard.trading_halted
    halt_reason,        \* RiskGuard.halt_reason
    record_calls,       \* the executor's calls of record_trade_result, per position_id
    api_calls,          \* calls made on the guard by an outside caller
    pc,                 \* executor task: where _execute_signal stands
    signal,             \* executor task: the signal being executed
    open_count,         \* validate_trade local
    current_exposure,   \* validate_trade local
    today_pnl,          \* validate_trade local
    reason,             \* _execute_signal local: validate_trade's reason
    success,            \* _execute_signal local
    exchange_orders,    \* order ids the exchange accepted
    cancel_attempts,    \* order ids cancel_order was called with
    rpc,                \* resolver task: where _resolve_open_positions stands
    open_positions,     \* resolver local: snapshot returned by get_open_positions
    resolved,           \* resolver local: [pnl, strategy] of the position just closed
    scanned,            \* inputs the scanner and the price feed present in this run
    market_queue,       \* asyncio.Queue between scanner and signal engine
    market,             \* signal engine local: the snapshot taken from market_queue
    btc_feed,           \* binance_feed as it stands while that snapshot is processed
    _recently_signaled, \* SignalEngine._recently_signaled
    cleanup_counter,    \* SignalEngine.start local, kept modulo CleanupPeriod
    boot,               \* TradingBot.start: the statement it stands at
    tasks,              \* the components TradingBot.start has started, in order
    running,            \* the components whose running flag is True
    returned,           \* the loops of scanner and signal engine that have returned
    ws,                 \* BinanceFeed: the connection, "none" or "open"
    silent,             \* 30 s windows the open connection has been silent for
    price_history,      \* BinanceFeed.price_history["btcusdt"]
    _watchlist,         \* MarketScanner._watchlist: the snapshot kept per market id
    hot_todo,           \* _hot_loop_tick: ids of its list() copy still to visit
    hot_market,         \* _hot_loop_tick: the id whose orderbooks it is fetching
    now                 \* the clock, in steps of ClockStep seconds

guard_vars == <<consecutive_fails, trading_halted, halt_reason>>

store_vars == <<positions, pnl_daily, events_log>>

exec_vars == <<pc, signal, open_count, current_exposure, today_pnl, reason, success>>

exchange_vars == <<exchange_orders, cancel_attempts>>

resolver_vars == <<rpc, open_positions, resolved>>

boot_vars == <<boot, tasks>>

stop_vars == <<running, returned>>

feed_vars == <<ws, silent, price_history>>

watch_vars == <<_watchlist, hot_todo, hot_market, now>>

\* What belongs to the bot around the trading pipeline.
bot_vars == <<boot_vars, stop_vars, feed_vars, watch_vars>>

\* What the executor, the guard and the resolver work on.
trade_vars == <<settings, signal_queue, issued, store_vars, guard_vars, record_calls,
                api_calls, exec_vars, exchange_vars, resolver_vars>>

engine_vars == <<scanned, market_queue, market, btc_feed, _recently_signaled, cleanup_counter>>

vars == <<settings, bot_vars, signal_queue, issued, store_vars, guard_vars, record_calls,
          api_calls, exec_vars, exchange_vars, resolver_vars, engine_vars>>

Ids == 1..MaxSignals

-----------------------------------------------------------------------------
(* Settings (config.py)                                                    *)

Config(bankroll, max_concurrent_positions, dry_run) ==
    [ bankroll                 |-> bankroll,
      max_arb_position_pct     |-> 200,      \* default 2.0
      max_late_position_pct    |-> 150,      \* default 1.5
      max_daily_exposure_pct   |-> 195,      \* 1.95; default 25.0
      max_concurrent_positions |-> max_concurrent_positions,
      daily_loss_halt_pct      |-> 500,      \* default 5.0
      max_consecutive_fails    |-> 3,        \* default 3
      max_slippage_pct         |-> 30,       \* default 0.3
      min_arb_edge_pct         |-> 1000,     \* 10.0; default 2.0
      min_time_to_close_minutes |-> 30,      \* default 30
      min_market_volume        |-> 5000,     \* USD; default 5000.0
      max_spread_one_of_many   |-> 200,      \* default 2.0
      max_spread_yes_no        |-> 150,      \* default 1.5
      max_spread_late_market   |-> 100,      \* default 1.0
      enable_late_market       |-> TRUE,     \* default True
      late_market_window_start |-> 180,      \* default 180
      late_market_window_end   |-> 60,       \* default 60
      late_market_min_deviation_pct  |-> 5,  \* default 0.05
      late_market_max_volatility_pct |-> 150, \* default 1.5
      late_market_max_price    |-> 950,      \* default 0.95
      enable_one_of_many       |-> TRUE,     \* default True
      enable_yes_no            |-> TRUE,     \* default True
      dry_run                  |-> dry_run ]

\* The configurations the model starts from: dry-run and live, a bankroll
\* whose arbitrage size admits the signals and one whose size rejects them.
\* Each satisfies the Field constraints of Settings (all > 0, percentages
\* within their le bounds).
Configs ==
    { Config(200 * Scale, 2, TRUE),
      Config(200 * Scale, 1, FALSE),
      Config(20 * Scale, 2, TRUE) }

max_arb_position_size == (settings.bankroll * settings.max_arb_position_pct) \div 10000

max_late_position_size == (settings.bankroll * settings.max_late_position_pct) \div 10000

max_daily_exposure == (settings.bankroll * settings.max_daily_exposure_pct) \div 10000

daily_loss_halt_amount == (settings.bankroll * settings.daily_loss_halt_pct) \div 10000

-----------------------------------------------------------------------------
(* Trade signals, as the signal engine builds them (signal_engine.py)      *)

\* size / price if price > 0 else 0
Tokens(size_usd, price) == IF price > 0 THEN (size_usd * Scale) \div price ELSE 0

Leg(outcome, price, size_usd) ==
    [ outcome     |-> outcome,
      price       |-> price,
      size_usd    |-> size_usd,
      size_tokens |-> Tokens(size_usd, price) ]

\* _check_yes_no_arb: total_cost is the sum of the two asks, each side is
\* sized to half of max_arb_position_size.
YesNoSignal(position_id, ask_a, ask_b) ==
    LET position_size_per_side == max_arb_position_size \div 2
        total_cost == ask_a + ask_b
    IN  [ strategy        |-> "yes_no",
          market_id       |-> "m_yes_no",
          legs            |-> << Leg("Yes", ask_a, position_size_per_side),
                                 Leg("No", ask_b, position_size_per_side) >>,
          total_cost      |-> total_cost,
          expected_payout |-> Scale,
          expected_edge   |-> (Scale - total_cost) * 100,
          position_id     |-> position_id ]

\* _check_late_market: one leg, total_cost is entry_price * size_tokens.
LateSignal(position_id, winning_side, entry_price) ==
    LET position_size_usd == max_late_position_size
        size_tokens == (position_size_usd * Scale) \div entry_price
    IN  [ strategy        |-> "late_market",
          market_id       |-> "m_btc_5m",
          legs            |-> << Leg(winning_side, entry_price, position_size_usd) >>,
          total_cost      |-> (entry_price * size_tokens) \div Scale,
          expected_payout |-> size_tokens,
          expected_edge   |-> (Scale - entry_price) * 100,
          position_id     |-> position_id ]

\* The signals the engine can emit with a fresh position id.
SignalPool(position_id) ==
    { YesNoSignal(position_id, 400, 500),
      LateSignal(position_id, "Up", 500) }

-----------------------------------------------------------------------------
(* Market snapshots and the detectors of the signal engine                 *)
(* (signal_engine.py, utils/helpers.py)                                    *)
(*                                                                         *)
(* A snapshot carries seconds_left in place of expires_at: what            *)
(* time_to_close(expires_at) returns when the snapshot is processed, or    *)
(* None when expires_at is missing or does not parse.  Spreads are in      *)
(* hundredths of a percent like the settings.                              *)

\* The engine holds no snapshot: it waits on market_queue.
NoMarket == [market_id |-> ""]

\* The feed while the engine holds no snapshot.
NoFeed == [price |-> None]

\* One outcome of a snapshot with its orderbook summary.  best_ask and
\* spread_pct are None or a value; asks are the levels, best first.  A book
\* without asks has no best ask and no spread.
Outcome(name, best_ask, spread_pct, sizes) ==
    [ outcome   |-> name,
      orderbook |-> IF best_ask = None
                    THEN [ best_ask |-> None, spread_pct |-> None, asks |-> <<>> ]
                    ELSE [ best_ask   |-> best_ask,
                           spread_pct |-> spread_pct,
                           asks       |-> [i \in DOMAIN sizes |-> [size |-> sizes[i]]] ] ]

\* is_btc_5m: the snapshot carries the flag or its question matches
\* is_btc_5m_market.
Snapshot(market_id, is_btc_5m, seconds_left, outcomes) ==
    [ market_id    |-> market_id,
      is_btc_5m    |-> is_btc_5m,
      seconds_left |-> seconds_left,
      outcomes     |-> outcomes ]

\* str.upper() on the outcome names that occur
Upper(name) ==
    CASE name \in {"Yes", "YES", "yes"} -> "YES"
      [] name \in {"No", "NO", "no"} -> "NO"
      [] name \in {"Up", "UP", "up"} -> "UP"
      [] name \in {"Down", "DOWN", "down"} -> "DOWN"
      [] name = "Yes " -> "YES "
      [] name = "Maybe" -> "MAYBE"
      [] OTHER -> name

\* Variant of the depth check that looks at the first level only for
\* presence, not for size.
AnyDepth(orderbook, required_size) == orderbook # <<>>

\* True as soon as the cumulative size of the levels reaches required_size;
\* False for an empty book.
validate_orderbook_depth(orderbook, required_size) ==
    \E n \in DOMAIN orderbook :
        SumSeq([i \in 1..n |-> orderbook[i].size]) >= required_size

validate_binary_market(outcomes) ==
    /\ Len(outcomes) = 2
    /\ LET outcome_names == {Upper(outcomes[i].outcome) : i \in DOMAIN outcomes}
       IN  \/ {"YES", "NO"} \subseteq outcome_names
           \/ {"UP", "DOWN"} \subseteq outcome_names

\* Variant of the window with both bounds excluded.
WithinOpenWindow(seconds_to_close, window_start, window_end) ==
    window_end < seconds_to_close /\ seconds_to_close < window_start

\* window_end <= seconds_to_close <= window_start
is_within_late_window(seconds_to_close, window_start, window_end) ==
    window_end <= seconds_to_close /\ seconds_to_close <= window_start

\* The time-to-close gate of the two arbitrage detectors.
TimeGatePassed(m) ==
    /\ m.seconds_left # None
    /\ \A seconds_left \in m.seconds_left :
          seconds_left >= settings.min_time_to_close_minutes * 60

\* spread = orderbook.get("spread_pct", 100);
\* spread is not None and spread > max_spread
SpreadExceeds(orderbook, max_spread) ==
    \E spread \in Get(orderbook, "spread_pct", Some(10000)) : spread > max_spread

\* Variant of the edge threshold that compares the edge with zero.
EdgeNegative(edge) == edge < 0

\* Variant of the edge threshold that also rejects an edge equal to it.
EdgeNotAbove(edge) == edge * 100 <= settings.min_arb_edge_pct * Scale

\* edge < settings.min_arb_edge_pct (edge is a percentage in units of
\* 1/Scale, the setting is in hundredths of a percent)
EdgeBelowMinimum(edge) == edge * 100 < settings.min_arb_edge_pct * Scale

\* The last outcome of the list whose upper-cased name is in names, or None.
LastNamed(outcomes, names) ==
    LET found == {i \in DOMAIN outcomes : Upper(outcomes[i].outcome) \in names}
    IN  IF found = {} THEN None
        ELSE Some(outcomes[CHOOSE i \in found : \A j \in found : j <= i])

\* _check_one_of_many_arb: None, or Some(signal).
_check_one_of_many_arb(m, position_id) ==
    LET outcomes == m.outcomes
        position_size_usd == max_arb_position_size \div Len(outcomes)
        ask(i) == CHOOSE a \in outcomes[i].orderbook.best_ask : TRUE
        total_cost == SumSeq([i \in DOMAIN outcomes |-> ask(i)])
        edge == (Scale - total_cost) * 100
    IN  IF Len(outcomes) < 3 THEN None
        ELSE IF ~TimeGatePassed(m) THEN None
        ELSE IF \E i \in DOMAIN outcomes :
                   \/ outcomes[i].orderbook.best_ask = None
                   \/ SpreadExceeds(outcomes[i].orderbook, settings.max_spread_one_of_many)
                   \/ ~validate_orderbook_depth(outcomes[i].orderbook.asks,
                                                Tokens(position_size_usd, ask(i)))
        THEN None
        ELSE IF EdgeBelowMinimum(edge) THEN None
        ELSE Some([ strategy        |-> "one_of_many",
                    market_id       |-> m.market_id,
                    legs            |-> [i \in DOMAIN outcomes |->
                                           Leg(outcomes[i].outcome, ask(i), position_size_usd)],
                    total_cost      |-> total_cost,
                    expected_payout |-> Scale,
                    expected_edge   |-> edge,
                    position_id     |-> position_id ])

\* _check_yes_no_arb: None, or Some(signal).
_check_yes_no_arb(m, position_id) ==
    LET outcomes == m.outcomes
        side_a == CHOOSE o \in LastNamed(outcomes, {"YES", "UP"}) : TRUE
        side_b == CHOOSE o \in LastNamed(outcomes, {"NO", "DOWN"}) : TRUE
        ask_a == CHOOSE a \in side_a.orderbook.best_ask : TRUE
        ask_b == CHOOSE a \in side_b.orderbook.best_ask : TRUE
        total_cost == ask_a + ask_b
        edge == (Scale - total_cost) * 100
        position_size_per_side == max_arb_position_size \div 2
    IN  IF ~validate_binary_market(outcomes) THEN None
        ELSE IF ~TimeGatePassed(m) THEN None
        ELSE IF LastNamed(outcomes, {"YES", "UP"}) = None
                \/ LastNamed(outcomes, {"NO", "DOWN"}) = None
        THEN None
        ELSE IF side_a.orderbook.best_ask = None \/ side_b.orderbook.best_ask = None
        THEN None
        ELSE IF \/ SpreadExceeds(side_a.orderbook, settings.max_spread_yes_no)
                \/ SpreadExceeds(side_b.orderbook, settings.max_spread_yes_no)
        THEN None
        ELSE IF EdgeBelowMinimum(edge) THEN None
        ELSE IF ~validate_orderbook_depth(side_a.orderbook.asks,
                                          Tokens(position_size_per_side, ask_a))
        THEN None
        ELSE IF ~validate_orderbook_depth(side_b.orderbook.asks,
                                          Tokens(position_size_per_side, ask_b))
        THEN None
        ELSE Some([ strategy        |-> "yes_no",
                    market_id       |-> m.market_id,
                    legs            |-> << Leg(side_a.outcome, ask_a, position_size_per_side),
                                           Leg(side_b.outcome, ask_b, position_size_per_side) >>,
                    total_cost      |-> total_cost,
                    expected_payout |-> Scale,
                    expected_edge   |-> edge,
                    position_id     |-> position_id ])

\* a dedup set that remembers nothing
NeverSignaled(market_id) == FALSE

\* the duplicate check of _check_late_market: the market is in the set of
\* markets a late signal was emitted for since the set was last cleared
RecentlySignaled(market_id) == market_id \in _recently_signaled

\* _check_late_market up to the point where it marks the market as
\* signaled: None, or Some(signal).  feed is binance_feed: price is
\* get_price("btcusdt"), volatility is get_volatility("btcusdt", 30) in
\* hundredths of a percent, history is price_history["btcusdt"].
_check_late_market(m, feed, position_id) ==
    LET outcomes == m.outcomes
        up_outcome == CHOOSE o \in LastNamed(outcomes, {"UP"}) : TRUE
        down_outcome == CHOOSE o \in LastNamed(outcomes, {"DOWN"}) : TRUE
        opening_price == feed.history[1]
        current_price == feed.history[Len(feed.history)]
        change == current_price - opening_price
        winning_outcome == IF change >= 0 THEN up_outcome ELSE down_outcome
        winning_side == IF change >= 0 THEN "Up" ELSE "Down"
        entry_price == CHOOSE a \in winning_outcome.orderbook.best_ask : TRUE
        position_size_usd == max_late_position_size
        size_tokens == Tokens(position_size_usd, entry_price)
    IN  IF ~m.is_btc_5m THEN None
        ELSE IF RecentlySignaled(m.market_id) THEN None
        ELSE IF m.seconds_left = None THEN None
        ELSE IF \E seconds_left \in m.seconds_left :
                   ~is_within_late_window(seconds_left,
                                          settings.late_market_window_start,
                                          settings.late_market_window_end)
        THEN None
        ELSE IF feed.price = None THEN None
        ELSE IF feed.volatility > settings.late_market_max_volatility_pct THEN None
        ELSE IF LastNamed(outcomes, {"UP"}) = None \/ LastNamed(outcomes, {"DOWN"}) = None
        THEN None
        ELSE IF up_outcome.orderbook.best_ask = None
                \/ down_outcome.orderbook.best_ask = None
        THEN None
        ELSE IF Len(feed.history) < 5 THEN None
        ELSE IF opening_price = 0 THEN None
        ELSE IF Abs(change) * 10000 < settings.late_market_min_deviation_pct * opening_price
        THEN None
        ELSE IF entry_price > settings.late_market_max_price THEN None
        ELSE IF ~validate_orderbook_depth(winning_outcome.orderbook.asks, size_tokens)
        THEN None
        ELSE IF SpreadExceeds(winning_outcome.orderbook, settings.max_spread_late_market)
        THEN None
        ELSE Some([ strategy         |-> "late_market",
                    market_id        |-> m.market_id,
                    legs             |-> << Leg(winning_side, entry_price, position_size_usd) >>,
                    total_cost       |-> (entry_price * size_tokens) \div Scale,
                    expected_payout  |-> size_tokens,
                    expected_edge    |-> (Scale - entry_price) * 100,
                    seconds_to_close |-> CHOOSE seconds_left \in m.seconds_left : TRUE,
                    position_id      |-> position_id ])

-----------------------------------------------------------------------------
(* Document store (db.py), as operators on a collection                    *)

RECURSIVE SumOver(_, _)
SumOver(S, f) ==
    IF S = {} THEN 0
    ELSE LET x == CHOOSE y \in S : TRUE IN f[x] + SumOver(S \ {x}, f)

\* Variant of insert_one that writes nothing.
InsertNothing(coll, position_data) == coll

\* insert_one: the collection with the document added under its position_id
create_position(coll, position_data) ==
    [p \in (DOMAIN coll) \cup {position_data.position_id} |->
        IF p = position_data.position_id THEN position_data ELSE coll[p]]

\* update_one(filter, {"$set": ...}) without upsert: when no document
\* matches the filter nothing is written.
update_position(coll, position_id, update_data) ==
    IF position_id \in DOMAIN coll
    THEN [coll EXCEPT ![position_id] = SetFields(@, update_data)]
    ELSE coll

\* Variant of the status filter that also matches pending records.
OpenOrPendingIds(coll) == {p \in DOMAIN coll : coll[p].status \in {"open", "pending"}}

\* The ids matched by the filter {"status": "open"}
OpenIds(coll) == {p \in DOMAIN coll : coll[p].status = "open"}

count_open_positions(coll) == Cardinality(OpenIds(coll))

\* aggregate: $match status open, $sum of "$total_cost"
get_total_exposure(coll) ==
    SumOver(OpenIds(coll), [p \in OpenIds(coll) |-> coll[p].total_cost])

\* The ids in S ordered by opened_at, newest first.
RECURSIVE NewestFirst(_, _)
NewestFirst(coll, S) ==
    IF S = {} THEN <<>>
    ELSE LET p == CHOOSE x \in S : \A y \in S : coll[y].opened_at <= coll[x].opened_at
         IN  <<coll[p]>> \o NewestFirst(coll, S \ {p})

\* Variant of the query without the status filter.
get_all_positions(coll) == NewestFirst(coll, DOMAIN coll)

\* find({"status": "open"}).sort("opened_at", DESCENDING)
get_open_positions(coll) == NewestFirst(coll, OpenIds(coll))

\* find_one({"date": today}): the document, or the empty document when
\* there is none (falsy in Python, like None).
get_daily_pnl(coll) == coll

\* update_one({"date": ...}, {"$set": {...pnl_data, date, updated_at}}, upsert)
upsert_daily_pnl(coll, pnl_data) ==
    SetFields(coll, SetFields(pnl_data, [date |-> "today"]))

\* log_event, with the store connected
log_event(log, event_type, position_id, level) ==
    log \cup {[event_type |-> event_type, position_id |-> position_id, level |-> level]}

-----------------------------------------------------------------------------
(* Risk guard (risk_guard.py)                                              *)

_get_max_position_size(strategy) ==
    IF strategy = "late_market" THEN max_late_position_size ELSE max_arb_position_size

\* Validate 1: total_cost > max_size
ExceedsPositionSize(sig) == sig.total_cost > _get_max_position_size(sig.strategy)

\* Variant of Validate 2 that compares with > instead of >=.
ConcurrentLimitPassed(count) == count > settings.max_concurrent_positions

\* Validate 2: open_count >= settings.max_concurrent_positions
ConcurrentLimitReached(count) == count >= settings.max_concurrent_positions

\* Variant of Validate 3 that compares with >= instead of >.
ExposureReached(exposure, total_cost) == exposure + total_cost >= max_daily_exposure

\* Validate 3: current_exposure + total_cost > settings.max_daily_exposure
ExposureExceeded(exposure, total_cost) == exposure + total_cost > max_daily_exposure

\* Variant of Validate 4 that compares with <= instead of <.
DailyLossReached(pnl) == pnl <= -daily_loss_halt_amount

\* Validate 4: today_pnl < -settings.daily_loss_halt_amount
DailyLossExceeded(pnl) == pnl < -daily_loss_halt_amount

\* _get_today_pnl: realized_pnl of today's record, 0.0 when there is no
\* record or the record has no such field.
_get_today_pnl(coll) ==
    IF DOMAIN get_daily_pnl(coll) # {} THEN Get(get_daily_pnl(coll), "realized_pnl", 0) ELSE 0

\* Variant of record_trade_result in which a success also lifts the halt.
GuardAfterResultLifting(guard, is_success) ==
    IF is_success
    THEN [ consecutive_fails |-> 0, trading_halted |-> FALSE, halt_reason |-> "" ]
    ELSE IF guard.consecutive_fails + 1 >= settings.max_consecutive_fails
         THEN [ consecutive_fails |-> guard.consecutive_fails + 1,
                trading_halted    |-> TRUE,
                halt_reason       |-> "consecutive failed trades" ]
         ELSE [guard EXCEPT !.consecutive_fails = guard.consecutive_fails + 1]

\* Variant of record_trade_result that halts one failure late (> for >=).
GuardAfterResultLate(guard, is_success) ==
    IF is_success
    THEN [guard EXCEPT !.consecutive_fails = 0]
    ELSE IF guard.consecutive_fails + 1 > settings.max_consecutive_fails
         THEN [ consecutive_fails |-> guard.consecutive_fails + 1,
                trading_halted    |-> TRUE,
                halt_reason       |-> "consecutive failed trades" ]
         ELSE [guard EXCEPT !.consecutive_fails = guard.consecutive_fails + 1]

\* The guard's fields after record_trade_result(position_id, success, pnl).
GuardAfterResult(guard, is_success) ==
    IF is_success
    THEN [guard EXCEPT !.consecutive_fails = 0]
    ELSE IF guard.consecutive_fails + 1 >= settings.max_consecutive_fails
         THEN [ consecutive_fails |-> guard.consecutive_fails + 1,
                trading_halted    |-> TRUE,
                halt_reason       |-> "consecutive failed trades" ]
         ELSE [guard EXCEPT !.consecutive_fails = guard.consecutive_fails + 1]

\* _update_daily_pnl(pnl): today's record after the upsert.
GuardDailyPnl(coll, pnl) ==
    LET current_pnl == get_daily_pnl(coll)
        new_total == IF DOMAIN current_pnl # {}
                     THEN Get(current_pnl, "realized_pnl", 0) + pnl
                     ELSE pnl
    IN  upsert_daily_pnl(coll,
            [ realized_pnl |-> new_total,
              return_pct   |-> [num |-> new_total * 100, den |-> settings.bankroll],
              trades_count |-> IF DOMAIN current_pnl # {}
                               THEN Get(current_pnl, "trades_count", 0) + 1
                               ELSE 1 ])

Guard ==
    [ consecutive_fails |-> consecutive_fails,
      trading_halted    |-> trading_halted,
      halt_reason       |-> halt_reason ]

\* record_trade_result(position_id, success, pnl); pnl is None or Some(v).
record_trade_result(position_id, is_success, pnl) ==
    LET after == GuardAfterResult(Guard, is_success)
    IN  /\ consecutive_fails' = after.consecutive_fails
        /\ trading_halted' = after.trading_halted
        /\ halt_reason' = after.halt_reason
        /\ pnl_daily' = IF pnl # None
                        THEN GuardDailyPnl(pnl_daily, CHOOSE v \in pnl : TRUE)
                        ELSE pnl_daily

halt_trading(why) ==
    /\ trading_halted' = TRUE
    /\ halt_reason' = why

resume_trading ==
    /\ trading_halted' = FALSE
    /\ halt_reason' = ""
    /\ consecutive_fails' = 0

-----------------------------------------------------------------------------
(* Order executor (executor.py)                                            *)

NoSignal == [position_id |-> 0, strategy |-> "none"]

\* _create_position_record(signal).  opened_at is the time of the call;
\* the executor creates records in the order the signals were emitted, so
\* the position_id (the emission number) orders the records by opened_at.
_create_position_record(sig) ==
    [ position_id     |-> sig.position_id,
      market_id       |-> sig.market_id,
      strategy        |-> sig.strategy,
      status          |-> "pending",
      legs            |-> sig.legs,
      total_cost      |-> sig.total_cost,
      expected_payout |-> sig.expected_payout,
      expected_edge   |-> sig.expected_edge,
      opened_at       |-> sig.position_id,
      closed_at       |-> None,
      realized_pnl    |-> None,
      orders          |-> <<>> ]

\* Variant of the failure record that leaves the status as created.
UnmarkedPosition(sig, why) ==
    SetFields(_create_position_record(sig),
              [ failure_reason |-> why,
                closed_at      |-> Some("now") ])

\* The record _record_failed_trade writes with update_position.
FailedPosition(sig, why) ==
    SetFields(_create_position_record(sig),
              [ status         |-> "failed",
                failure_reason |-> why,
                closed_at      |-> Some("now") ])

\* _record_failed_trade(signal, reason): update_position, then the
\* trade_failed event.
_record_failed_trade(sig, why) ==
    /\ positions' = update_position(positions, sig.position_id, FailedPosition(sig, why))
    /\ events_log' = log_event(events_log, "trade_failed", sig.position_id, "ERROR")

\* The executor returns from _execute_signal: OrderExecutor.start tests
\* `while self.running` and waits on the queue again, or returns.
ExecReturn ==
    /\ pc' = IF "executor" \in running THEN "idle" ELSE "returned"
    /\ signal' = NoSignal
    /\ open_count' = 0
    /\ current_exposure' = 0
    /\ today_pnl' = 0
    /\ reason' = <<>>
    /\ success' = FALSE

\* The signal engine puts a signal with a fresh position id on the queue
\* (signal_queue.put, which waits while the queue is full).
EmitSignal ==
    /\ issued < MaxSignals
    /\ HasRoom(signal_queue, 1, SignalQueueCapacity)
    /\ \E sig \in SignalPool(issued + 1) :
         signal_queue' = Append(signal_queue, sig)
    /\ issued' = issued + 1
    /\ UNCHANGED <<settings, bot_vars, engine_vars, store_vars, guard_vars, record_calls, api_calls,
                   exec_vars, exchange_vars, resolver_vars>>

\* signal_queue.get() returns; validate_trade up to the answer of
\* db.count_open_positions(): halt check, Validate 1, Validate 2.
ExecValidate ==
    /\ pc = "idle"
    /\ signal_queue # <<>>
    /\ LET sig == Oldest(signal_queue)
           count == count_open_positions(positions)
       IN  /\ signal' = sig
           /\ signal_queue' = Tail(signal_queue)
           /\ IF trading_halted
              THEN /\ reason' = <<"Trading halted", halt_reason>>
                   /\ open_count' = 0
                   /\ pc' = "reject"
              ELSE IF ExceedsPositionSize(sig)
              THEN /\ reason' = <<"Position size exceeds limit">>
                   /\ open_count' = 0
                   /\ pc' = "reject"
              ELSE /\ open_count' = count
                   /\ IF ConcurrentLimitReached(count)
                      THEN /\ reason' = <<"Max concurrent positions reached">>
                           /\ pc' = "reject"
                      ELSE /\ reason' = <<>>
                           /\ pc' = "exposure"
    /\ UNCHANGED <<settings, bot_vars, engine_vars, issued, store_vars, guard_vars, record_calls, api_calls,
                   current_exposure, today_pnl, success,
                   exchange_vars, resolver_vars>>

\* validate_trade from the answer of db.get_total_exposure(): Validate 3.
ExecValidateExposure ==
    /\ pc = "exposure"
    /\ LET exposure == get_total_exposure(positions)
       IN  /\ current_exposure' = exposure
           /\ IF ExposureExceeded(exposure, signal.total_cost)
              THEN /\ reason' = <<"Daily exposure limit would be exceeded">>
                   /\ pc' = "reject"
              ELSE /\ reason' = <<>>
                   /\ pc' = "pnl"
    /\ UNCHANGED <<settings, bot_vars, engine_vars, signal_queue, issued, store_vars, guard_vars, record_calls,
                   api_calls, signal, open_count, today_pnl, success,
                   exchange_vars, resolver_vars>>

\* validate_trade from the answer of db.get_daily_pnl(): Validate 4, which
\* halts trading on a daily loss, and the verdict.
ExecValidatePnl ==
    /\ pc = "pnl"
    /\ LET pnl == _get_today_pnl(pnl_daily)
       IN  /\ today_pnl' = pnl
           /\ IF DailyLossExceeded(pnl)
              THEN /\ halt_trading("Daily loss limit exceeded")
                   /\ reason' = <<"Daily loss limit exceeded">>
                   /\ pc' = "reject"
                   /\ UNCHANGED consecutive_fails
              ELSE /\ reason' = <<"OK">>
                   /\ pc' = "create"
                   /\ UNCHANGED guard_vars
    /\ UNCHANGED <<settings, bot_vars, engine_vars, signal_queue, issued, store_vars, record_calls,
                   api_calls, signal, open_count, current_exposure, success,
                   exchange_vars, resolver_vars>>

\* not is_valid: _record_failed_trade(signal, "Risk check failed: ...") and return.
ExecRejected ==
    /\ pc = "reject"
    /\ _record_failed_trade(signal, <<"Risk check failed">> \o reason)
    /\ ExecReturn
    /\ UNCHANGED <<settings, bot_vars, engine_vars, signal_queue, issued, pnl_daily, guard_vars, record_calls,
                   api_calls, exchange_vars, resolver_vars>>

\* position = _create_position_record(signal); db.create_position(position)
ExecCreatePosition ==
    /\ pc = "create"
    /\ positions' = create_position(positions, _create_position_record(signal))
    /\ pc' = IF settings.dry_run THEN "dry_run" ELSE "live"
    /\ UNCHANGED <<settings, bot_vars, engine_vars, signal_queue, issued, pnl_daily, events_log, guard_vars,
                   record_calls, api_calls, signal, open_count, current_exposure,
                   today_pnl, reason, success, exchange_vars, resolver_vars>>

\* Variant of the simulated order that is left unfilled.
SimulatedOrderUnfilled(position_id, leg) ==
    [ outcome      |-> leg.outcome,
      order_id     |-> <<"DRY_RUN", position_id, leg.outcome>>,
      side         |-> "BUY",
      price        |-> leg.price,
      size         |-> leg.size_tokens,
      filled       |-> 0,
      status       |-> "live",
      fill_price   |-> leg.price,
      slippage_pct |-> 0 ]

\* The simulated order of one leg in _execute_dry_run.
SimulatedOrder(position_id, leg) ==
    [ outcome      |-> leg.outcome,
      order_id     |-> <<"DRY_RUN", position_id, leg.outcome>>,
      side         |-> "BUY",
      price        |-> leg.price,
      size         |-> leg.size_tokens,
      filled       |-> leg.size_tokens,
      status       |-> "filled",
      fill_price   |-> leg.price,
      slippage_pct |-> 0 ]

\* fill_price * fill_size of a leg, a product of two fixed-point numbers
FillCost(fill_price, fill_size) == (fill_price * fill_size) \div Scale

\* _execute_dry_run: the position as updated after the simulated fills
DryRunPosition(sig) ==
    SetFields(_create_position_record(sig),
        [ status            |-> "open",
          orders            |-> [i \in DOMAIN sig.legs |->
                                    SimulatedOrder(sig.position_id, sig.legs[i])],
          actual_total_cost |-> SumSeq([i \in DOMAIN sig.legs |->
                                    FillCost(sig.legs[i].price, sig.legs[i].size_tokens)]) ])

\* _execute_dry_run after the simulated network delay: update_position,
\* the dry_run_trade_executed event, return True.
ExecDryRun ==
    /\ pc = "dry_run"
    /\ positions' = update_position(positions, signal.position_id, DryRunPosition(signal))
    /\ events_log' = log_event(events_log, "dry_run_trade_executed", signal.position_id, "INFO")
    /\ success' = TRUE
    /\ pc' = "record"
    /\ UNCHANGED <<settings, bot_vars, engine_vars, signal_queue, issued, pnl_daily, guard_vars, record_calls,
                   api_calls, signal, open_count, current_exposure, today_pnl, reason,
                   exchange_vars, resolver_vars>>

-----------------------------------------------------------------------------
(* Live execution (executor.py, _execute_live)                             *)

OrderId(position_id, i) == <<position_id, i>>

\* What one _place_order task can end with: an exception, None (no
\* token_id, or place_order failed), or the exchange's response.
RaisedResult == [kind |-> "exception", body |-> <<>>]

NoneResult == [kind |-> "none", body |-> <<>>]

DictResult(body) == [kind |-> "dict", body |-> body]

OrderResponses(position_id, i, leg) ==
    LET oid == OrderId(position_id, i)
    IN  { RaisedResult,
          NoneResult,
          DictResult([order_id |-> oid, status |-> "filled",
                      fill_price |-> leg.price, size |-> leg.size_tokens]),
          DictResult([order_id |-> oid, status |-> "filled",
                      fill_price |-> leg.price + 1, size |-> leg.size_tokens]),
          DictResult([order_id |-> oid, status |-> "filled",
                      fill_price |-> leg.price + 2, size |-> leg.size_tokens]),
          DictResult([order_id |-> oid, status |-> "live"]),
          DictResult([order_id |-> oid, status |-> "filled", size |-> leg.size_tokens]) }

\* isinstance(result, dict) and result.get("order_id")
HasOrderId(r) == r.kind = "dict" /\ "order_id" \in DOMAIN r.body

\* The order ids _cancel_all_orders(order_results) calls cancel_order with.
CancelledBy(order_results) ==
    {order_results[i].body.order_id : i \in {j \in DOMAIN order_results : HasOrderId(order_results[j])}}

\* isinstance(r, Exception) or not r
IsFailedOrder(r) == r.kind = "exception" \/ r.kind = "none" \/ DOMAIN r.body = {}

\* calculate_slippage(expected_price, actual_price), in percent, as a fraction
calculate_slippage(expected_price, actual_price) ==
    IF expected_price = 0 THEN [num |-> 0, den |-> 1]
    ELSE [num |-> (actual_price - expected_price) * 100, den |-> expected_price]

\* abs(slippage) > settings.max_slippage_pct (the setting is in hundredths
\* of a percent)
ExcessiveSlippage(slippage) ==
    Abs(slippage.num) * 100 > settings.max_slippage_pct * slippage.den

\* The fill the verification loop reads from a response.
FillPrice(r, leg) == Get(r.body, "fill_price", leg.price)

\* Variant of the verification loop without the slippage check.
AllFilledAnySlippage(sig, order_results) ==
    \A i \in DOMAIN order_results :
        Get(order_results[i].body, "status", "") = "filled"

\* The verification loop leaves all_filled true: every response reports
\* status filled and a slippage within tolerance.
AllFilled(sig, order_results) ==
    \A i \in DOMAIN order_results :
        /\ Get(order_results[i].body, "status", "") = "filled"
        /\ ~ExcessiveSlippage(calculate_slippage(sig.legs[i].price,
                                                  FillPrice(order_results[i], sig.legs[i])))

\* The orders list the loop builds: {**order_result, outcome, slippage_pct}
VerifiedOrders(sig, order_results) ==
    [i \in DOMAIN order_results |->
        SetFields(order_results[i].body,
            [ outcome      |-> sig.legs[i].outcome,
              slippage_pct |-> calculate_slippage(sig.legs[i].price,
                                   FillPrice(order_results[i], sig.legs[i])) ])]

\* o["fill_price"] * o["size"] raises KeyError for an order without the key
CostKeysPresent(orders) ==
    \A i \in DOMAIN orders : {"fill_price", "size"} \subseteq DOMAIN orders[i]

\* The position _execute_live writes on success.
LivePosition(sig, orders) ==
    LET actual_cost == SumSeq([i \in DOMAIN orders |->
                           FillCost(orders[i].fill_price, orders[i].size)])
    IN  SetFields(_create_position_record(sig),
            [ status            |-> "open",
              orders            |-> orders,
              actual_total_cost |-> actual_cost,
              actual_edge       |-> (sig.expected_payout - actual_cost) * 100,
              avg_slippage      |-> [ total |-> [i \in DOMAIN orders |-> orders[i].slippage_pct],
                                      count |-> Len(orders) ] ])

\* The legs of the signal whose order the exchange accepted.
PlacedLegs(sig) == {i \in DOMAIN sig.legs : OrderId(sig.position_id, i) \in exchange_orders}

\* What the task of leg i can end with, given whether the exchange accepted
\* its order.
LegResults(sig, i) ==
    {r \in OrderResponses(sig.position_id, i, sig.legs[i]) :
        HasOrderId(r) <=> i \in PlacedLegs(sig)}

\* The result lists of the first n legs.
RECURSIVE ResultTuples(_, _)
ResultTuples(sig, n) ==
    IF n = 0 THEN {<<>>}
    ELSE {Append(rs, r) : rs \in ResultTuples(sig, n - 1), r \in LegResults(sig, n)}

\* The results gather can return: a response for each leg whose order the
\* exchange accepted, an exception or None for the others.
GatherResults(sig) == ResultTuples(sig, Len(sig.legs))

\* The order tasks run under wait_for: the exchange accepts the orders of
\* some of the legs, and the wait ends with gather's results or with
\* asyncio.TimeoutError after order_timeout_seconds.
ExecLivePlace ==
    /\ pc = "live"
    /\ \E placed \in SUBSET (DOMAIN signal.legs) :
         exchange_orders' = exchange_orders \cup
                               {OrderId(signal.position_id, i) : i \in placed}
    /\ pc' \in {"live_done", "live_timeout"}
    /\ UNCHANGED <<settings, bot_vars, engine_vars, signal_queue, issued, store_vars, guard_vars, record_calls,
                   api_calls, signal, open_count, current_exposure, today_pnl, reason,
                   success, cancel_attempts, resolver_vars>>

\* The wait ended with a timeout.  The handler evaluates `results`, which
\* was never bound: the UnboundLocalError is caught by the outer handler,
\* which records the failure and cancels nothing.
LiveTimedOut ==
    /\ _record_failed_trade(signal, <<"Exception", "UnboundLocalError">>)
    /\ success' = FALSE
    /\ UNCHANGED cancel_attempts

\* The wait ended with gather's results.
LiveCompleted(results) ==
    LET orders == VerifiedOrders(signal, results)
    IN  IF \E i \in DOMAIN results : IsFailedOrder(results[i])
        THEN /\ cancel_attempts' = cancel_attempts \cup CancelledBy(results)
             /\ _record_failed_trade(signal, <<"Partial fill">>)
             /\ success' = FALSE
        ELSE IF ~AllFilled(signal, results)
        THEN /\ cancel_attempts' = cancel_attempts \cup CancelledBy(results)
             /\ _record_failed_trade(signal, <<"Fill verification failed">>)
             /\ success' = FALSE
        ELSE IF ~CostKeysPresent(orders)
        THEN /\ _record_failed_trade(signal, <<"Exception", "KeyError">>)
             /\ success' = FALSE
             /\ UNCHANGED cancel_attempts
        ELSE /\ positions' = update_position(positions, signal.position_id,
                                             LivePosition(signal, orders))
             /\ success' = TRUE
             /\ UNCHANGED <<events_log, cancel_attempts>>

\* _execute_live from the timeout of the wait to its return.
ExecLiveTimeout ==
    /\ pc = "live_timeout"
    /\ LiveTimedOut
    /\ pc' = "record"
    /\ UNCHANGED <<settings, bot_vars, engine_vars, signal_queue, issued, pnl_daily, guard_vars, record_calls,
                   api_calls, signal, open_count, current_exposure, today_pnl, reason,
                   exchange_orders, resolver_vars>>

\* _execute_live from the results of the wait to its return.
ExecLiveFinish ==
    /\ pc = "live_done"
    /\ \E results \in GatherResults(signal) : LiveCompleted(results)
    /\ pc' = "record"
    /\ UNCHANGED <<settings, bot_vars, engine_vars, signal_queue, issued, pnl_daily, guard_vars, record_calls,
                   api_calls, signal, open_count, current_exposure, today_pnl, reason,
                   exchange_orders, resolver_vars>>

\* pnl = position.get("realized_pnl"), which the executor never sets;
\* record_trade_result(position_id, success, pnl); return.
ExecRecordResult ==
    /\ pc = "record"
    /\ record_trade_result(signal.position_id, success, None)
    /\ record_calls' = [record_calls EXCEPT ![signal.position_id] = Append(@, success)]
    /\ ExecReturn
    /\ UNCHANGED <<settings, bot_vars, engine_vars, signal_queue, issued, positions, events_log, api_calls,
                   exchange_vars, resolver_vars>>

-----------------------------------------------------------------------------
(* Position resolver (position_resolver.py)                                *)

\* What _fetch_market can return for a market: None on an error or a
\* non-200 status, else the market's data.
MarketResponses ==
    { None,
      Some([resolved |-> FALSE, closed |-> FALSE]),
      Some([resolved |-> TRUE]),
      Some([resolved |-> TRUE, winner |-> "YES "]),
      Some([resolved |-> TRUE, winner |-> "No"]),
      Some([resolved |-> TRUE, winner |-> "a"]),
      Some([closed |-> TRUE,
            tokens |-> << [outcome |-> "Up", winner |-> FALSE],
                          [outcome |-> "Down", winner |-> TRUE] >>]),
      Some([resolved |-> TRUE,
            outcomes |-> << [name |-> "Up", winner |-> TRUE] >>]) }

\* str.lower().strip() on the outcome names that occur
LowerStrip(name) ==
    CASE name \in {"Yes", "YES", "YES ", "yes"} -> "yes"
      [] name \in {"No", "NO", " no", "no"} -> "no"
      [] name \in {"Up", "UP", "up"} -> "up"
      [] name \in {"Down", "DOWN", "down"} -> "down"
      [] name \in {"A", "a"} -> "a"
      [] name = "B" -> "b"
      [] name = "C" -> "c"
      [] name = "D" -> "d"
      [] OTHER -> name

\* The first element of a tokens/outcomes array marked winner that has a
\* name under one of the keys, as Some(name), else None.
RECURSIVE FirstMarked(_, _)
FirstMarked(items, keys) ==
    IF items = <<>> THEN None
    ELSE LET item == Head(items)
             named == {k \in keys : k \in DOMAIN item /\ item[k] # ""}
         IN  IF Get(item, "winner", FALSE) /\ named # {}
             THEN Some(item[IF "outcome" \in named THEN "outcome" ELSE "name"])
             ELSE FirstMarked(Tail(items), keys)

\* Variant that names a winner for every market: YES when none is reported.
WinnerOrYes(market_data) ==
    IF Get(market_data, "winner", "") # "" THEN Some(market_data.winner) ELSE Some("Yes")

\* _extract_winner(market_data): None or Some(winner name)
_extract_winner(market_data) ==
    IF Get(market_data, "winner", "") # ""
    THEN Some(market_data.winner)
    ELSE IF FirstMarked(Get(market_data, "tokens", <<>>), {"outcome"}) # None
    THEN FirstMarked(Get(market_data, "tokens", <<>>), {"outcome"})
    ELSE FirstMarked(Get(market_data, "outcomes", <<>>), {"outcome", "name"})

\* Variant of the match that compares the leg's outcome as stored.
WinningLegAsStored(legs, winner_lower) ==
    LET matching == {i \in DOMAIN legs : Get(legs[i], "outcome", "") = winner_lower}
    IN  IF matching = {} THEN {}
        ELSE {CHOOSE i \in matching : \A j \in matching : i <= j}

\* The first leg whose outcome matches the winner, as a set of at most one index.
WinningLeg(legs, winner_lower) ==
    LET matching == {i \in DOMAIN legs : LowerStrip(Get(legs[i], "outcome", "")) = winner_lower}
    IN  IF matching = {} THEN {}
        ELSE {CHOOSE i \in matching : \A j \in matching : i <= j}

\* _calculate_pnl(position, winner, strategy)
_calculate_pnl(position, winner, strategy) ==
    LET legs == Get(position, "legs", <<>>)
        actual_total_cost == Get(position, "actual_total_cost", 0)
        winner_lower == LowerStrip(winner)
    IN  IF legs = <<>> THEN 0
        ELSE IF strategy \in {"one_of_many", "yes_no"}
        THEN IF WinningLeg(legs, winner_lower) = {}
             THEN -actual_total_cost
             ELSE Get(legs[CHOOSE i \in WinningLeg(legs, winner_lower) : TRUE],
                      "size_tokens", 0) - actual_total_cost
        ELSE IF strategy = "late_market"
        THEN IF LowerStrip(Get(legs[1], "outcome", "")) = winner_lower
             THEN Get(legs[1], "size_tokens", 0) - actual_total_cost
             ELSE -actual_total_cost
        ELSE 0

\* Variant of the rollup that starts a fresh record at every resolution.
FreshDailyPnl(coll, pnl, strategy) ==
    SetFields(coll, [ date           |-> "today",
                      total_pnl      |-> pnl,
                      total_trades   |-> 1,
                      winning_trades |-> IF pnl > 0 THEN 1 ELSE 0,
                      win_rate       |-> [num |-> IF pnl > 0 THEN 100 ELSE 0, den |-> 1],
                      strategy_pnl   |-> [k \in {strategy} |-> pnl] ])

\* PositionResolver._update_daily_pnl(pnl, strategy, timestamp): today's
\* record after the upsert.
ResolverDailyPnl(coll, pnl, strategy) ==
    LET existing == get_daily_pnl(coll)
        new_trades == Get(existing, "total_trades", 0) + 1
        new_wins == Get(existing, "winning_trades", 0) + (IF pnl > 0 THEN 1 ELSE 0)
        old_strategy_pnl == Get(existing, "strategy_pnl", <<>>)
    IN  IF DOMAIN existing # {}
        THEN upsert_daily_pnl(coll,
                [ total_pnl      |-> Get(existing, "total_pnl", 0) + pnl,
                  total_trades   |-> new_trades,
                  winning_trades |-> new_wins,
                  win_rate       |-> [num |-> new_wins * 100, den |-> new_trades],
                  strategy_pnl   |-> SetFields(old_strategy_pnl,
                                        [k \in {strategy} |->
                                            Get(old_strategy_pnl, strategy, 0) + pnl]) ])
        ELSE upsert_daily_pnl(coll,
                [ total_pnl      |-> pnl,
                  total_trades   |-> 1,
                  winning_trades |-> IF pnl > 0 THEN 1 ELSE 0,
                  win_rate       |-> [num |-> IF pnl > 0 THEN 100 ELSE 0, den |-> 1],
                  strategy_pnl   |-> [k \in {strategy} |-> pnl] ])

\* The loop of _resolve_open_positions moves to the next position of the
\* snapshot, or the resolver sleeps until its next tick.
ResolverAdvance ==
    /\ open_positions' = Tail(open_positions)
    /\ rpc' = IF Tail(open_positions) = <<>> THEN "sleep" ELSE "loop"

\* A tick: _resolve_open_positions reads the open positions.
ResolverTick ==
    /\ rpc = "sleep"
    /\ open_positions' = get_open_positions(positions)
    /\ rpc' = IF get_open_positions(positions) = <<>> THEN "sleep" ELSE "loop"
    /\ UNCHANGED <<settings, bot_vars, engine_vars, signal_queue, issued, store_vars, guard_vars, record_calls,
                   api_calls, exec_vars, exchange_vars, resolved>>

\* _check_and_resolve(position) up to db.update_position, fetched being
\* what _fetch_market returned: when the market has settled with a winner
\* close the position.
ResolverCheckOn(fetched) ==
    /\ rpc = "loop"
    /\   LET position == Head(open_positions)
             market_data == CHOOSE m \in fetched : TRUE
             is_resolved == Get(market_data, "resolved", FALSE) \/ Get(market_data, "closed", FALSE)
             winner == _extract_winner(market_data)
             won == CHOOSE w \in winner : TRUE
             strategy == Get(position, "strategy", "")
             pnl == _calculate_pnl(position, won, strategy)
         IN  IF fetched = None \/ ~is_resolved \/ winner = None
             THEN /\ ResolverAdvance
                  /\ UNCHANGED <<positions, resolved>>
             ELSE /\ positions' = update_position(positions, position.position_id,
                                     [ status       |-> "closed",
                                       closed_at    |-> Some("now"),
                                       realized_pnl |-> Some(pnl),
                                       winner       |-> won ])
                  /\ resolved' = [pnl |-> pnl, strategy |-> strategy]
                  /\ rpc' = "rollup"
                  /\ UNCHANGED open_positions
    /\ UNCHANGED <<settings, bot_vars, engine_vars, signal_queue, issued, pnl_daily, events_log, guard_vars,
                   record_calls, api_calls, exec_vars, exchange_vars>>

\* _check_and_resolve on whatever the market fetch returns
ResolverCheck == \E fetched \in MarketResponses : ResolverCheckOn(fetched)

\* _check_and_resolve after the position is closed: the daily rollup and
\* the position_resolved event.
ResolverRollup ==
    /\ rpc = "rollup"
    /\ pnl_daily' = ResolverDailyPnl(pnl_daily, resolved.pnl, resolved.strategy)
    /\ events_log' = log_event(events_log, "position_resolved",
                               Head(open_positions).position_id,
                               IF resolved.pnl >= 0 THEN "INFO" ELSE "WARNING")
    /\ resolved' = [pnl |-> 0, strategy |-> ""]
    /\ ResolverAdvance
    /\ UNCHANGED <<settings, bot_vars, engine_vars, signal_queue, issued, positions, guard_vars, record_calls,
                   api_calls, exec_vars, exchange_vars>>

-----------------------------------------------------------------------------
(* Outside callers of the risk guard's public methods, as the guard's      *)
(* tests call them: between two executions of the executor.                *)

\* The (success, pnl) arguments outside callers pass.
ApiResults ==
    { <<TRUE, None>>, <<FALSE, None>>,
      <<FALSE, Some(-1)>>, <<TRUE, Some(-daily_loss_halt_amount)>> }

\* await guard.record_trade_result("pos1", success, pnl)
ApiRecordTradeResultWith(is_success, pnl) ==
    /\ pc = "idle"
    /\ api_calls < MaxApiCalls
    /\ api_calls' = api_calls + 1
    /\ record_trade_result("pos1", is_success, pnl)
    /\ UNCHANGED <<settings, bot_vars, engine_vars, signal_queue, issued, positions, events_log, record_calls,
                   exec_vars, exchange_vars, resolver_vars>>

ApiRecordTradeResult ==
    \E args \in ApiResults : ApiRecordTradeResultWith(args[1], args[2])

\* guard.halt_trading("Manual halt")
ApiHaltTrading ==
    /\ pc = "idle"
    /\ api_calls < MaxApiCalls
    /\ api_calls' = api_calls + 1
    /\ halt_trading("Manual halt")
    /\ UNCHANGED <<settings, bot_vars, engine_vars, signal_queue, issued, store_vars, consecutive_fails,
                   record_calls, exec_vars, exchange_vars, resolver_vars>>

\* guard.resume_trading()
ApiResumeTrading ==
    /\ pc = "idle"
    /\ api_calls < MaxApiCalls
    /\ api_calls' = api_calls + 1
    /\ resume_trading
    /\ UNCHANGED <<settings, bot_vars, engine_vars, signal_queue, issued, store_vars, record_calls,
                   exec_vars, exchange_vars, resolver_vars>>

-----------------------------------------------------------------------------
(* Scanner (scanner.py): the two loops that put snapshots on market_queue  *)

\* A snapshot's seconds_left is the time to close the signal engine computes
\* when it processes the snapshot; the scanner reads the clock earlier and
\* so sees a time to close that is no smaller.

\* The Gamma fields of a listed market the scan filters read: active, volume
\* (USD), seconds_to_close (time_to_close of endDate as the scanner reads it;
\* None without a parseable endDate), and the lengths of clobTokenIds and of
\* tokens.  An input that does not spell them out is a market that passes:
\* active, with the minimum volume, scanned when it was far enough from its
\* close, with one clobTokenId per outcome.
Listing(input) ==
    IF "gamma" \in DOMAIN input
    THEN input.gamma
    ELSE [ active           |-> TRUE,
           volume           |-> settings.min_market_volume,
           seconds_to_close |->
               { IF seconds_left >= settings.min_time_to_close_minutes * 60
                 THEN seconds_left
                 ELSE settings.min_time_to_close_minutes * 60 :
                   seconds_left \in input.market.seconds_left },
           clobTokenIds     |-> Len(input.market.outcomes),
           tokens           |-> 0 ]

\* Variant of the filters that lets every listed market through.
PassesAnyListing(listed, outcomes) == TRUE

\* _passes_basic_filters(market), outcomes being the parsed outcomes
_passes_basic_filters(listed, outcomes) ==
    /\ listed.active
    /\ listed.volume >= settings.min_market_volume
    /\ listed.seconds_to_close # None
    /\ \A seconds_to_close \in listed.seconds_to_close :
          seconds_to_close >= settings.min_time_to_close_minutes * 60
    /\ Len(outcomes) >= 2

\* _enrich_with_orderbook(market): None when neither clobTokenIds nor tokens
\* has one entry per outcome, else the snapshot with the orderbook of each
\* token.
_enrich_with_orderbook(input) ==
    LET listed == Listing(input)
        outcomes == input.market.outcomes
    IN  IF outcomes = <<>> THEN None
        ELSE IF listed.clobTokenIds = Len(outcomes) \/ listed.tokens = Len(outcomes)
        THEN Some(input.market)
        ELSE None

\* _scan_markets on one listed market: a market that passes
\* _passes_basic_filters is enriched, and the snapshot, if there is one, is
\* stored and put on market_queue; the put waits while the queue is full.
ArbScanPut ==
    /\ \E input \in scanned :
          /\ _passes_basic_filters(Listing(input), input.market.outcomes)
          /\ \E enriched_market \in _enrich_with_orderbook(input) :
                /\ HasRoom(market_queue, 1, MarketQueueCapacity)
                /\ market_queue' = Append(market_queue, enriched_market)
    /\ UNCHANGED <<settings, bot_vars, signal_queue, issued, store_vars, guard_vars, record_calls,
                   api_calls, exec_vars, exchange_vars, resolver_vars, scanned, market,
                   btc_feed, _recently_signaled, cleanup_counter>>

\* Times to close a hot-loop tick can read for a watchlist market.
HotLoopSeconds == {181, 180, 120, 60, 59, 0}

\* _hot_loop_tick on one watchlist market whose time to close it reads as
\* secs, when the tick pushes: the loop runs (settings carries
\* hot_loop_interval_ms, which config.py does not declare: _hot_loop raises
\* AttributeError on a Settings object without it), the watchlist holds BTC
\* 5-minute markets with an expires_at, the market has not expired and is
\* inside the late window; the refreshed snapshot is put on market_queue.
HotLoopPush(input, secs) ==
    /\ settings.enable_late_market
    /\ "hot_loop_interval_ms" \in DOMAIN settings
    /\ input.market.is_btc_5m
    /\ input.market.seconds_left # None
    /\ \A seconds_left \in input.market.seconds_left : seconds_left <= secs
    /\ secs > 0
    /\ is_within_late_window(secs, settings.late_market_window_start,
                             settings.late_market_window_end)
    /\ HasRoom(market_queue, 1, MarketQueueCapacity)
    /\ market_queue' = Append(market_queue, input.market)
    /\ UNCHANGED <<settings, bot_vars, signal_queue, issued, store_vars, guard_vars, record_calls,
                   api_calls, exec_vars, exchange_vars, resolver_vars, scanned, market,
                   btc_feed, _recently_signaled, cleanup_counter>>

HotLoopTick == \E input \in scanned, secs \in HotLoopSeconds : HotLoopPush(input, secs)

-----------------------------------------------------------------------------
(* Late-market watch-list (scanner.py: feeder and hot loop, step by step)  *)

\* The BTC 5-minute markets the Gamma API knows, with the second at which
\* each closes.
BtcExpiry == ("btc_a" :> 240) @@ ("btc_b" :> 420)

\* The seconds at which the clock is read.
ClockReadings == {0, 59, 60, 120, 180, 181, 240, 300, 420}

\* Best asks an orderbook fetch can return for the Up outcome.
WatchAsks == {Some(400), Some(500)}

\* Whole seconds from now to expires_at, negative once the market has closed.
time_to_close(expires_at) == expires_at - now

\* What _enrich_with_orderbook returns for a listed BTC market.
EnrichedBtcMarket(market_id, best_ask) ==
    [ market_id |-> market_id, expires_at |-> BtcExpiry[market_id], best_ask |-> best_ask ]

\* Variant of the feeder's entry that leaves the snapshot as enriched.
UnflaggedEntry(enriched) == enriched

\* enriched["is_btc_5m"] = True
WatchlistEntry(enriched) == SetFields(enriched, [is_btc_5m |-> TRUE])

\* Time passes between two steps of the scanner's tasks.
ClockAdvance ==
    /\ \E reading \in ClockReadings :
          /\ reading > now
          /\ now' = reading
    /\ UNCHANGED <<trade_vars, boot_vars, stop_vars, feed_vars, engine_vars,
                   _watchlist, hot_todo, hot_market>>

\* One pass of _refresh_watchlist.  The fetch returns any part of the BTC
\* markets (none when the request fails: _fetch_btc_5m_markets then returns
\* []); a listed market inside the horizon is a candidate, a candidate not
\* yet watched is added when its enrichment succeeds, and every watched
\* market that is not a candidate of this pass is deleted.  The pass is
\* taken as one step: its fetches return before another task runs.
WatchlistRefresh ==
    /\ settings.enable_late_market
    /\ "watchlist_horizon_seconds" \in DOMAIN settings
    /\ \E markets \in SUBSET DOMAIN BtcExpiry, best_ask \in WatchAsks, enriches \in BOOLEAN :
          LET horizon == settings.watchlist_horizon_seconds
              now_candidates ==
                  { market_id \in markets :
                        /\ 0 < time_to_close(BtcExpiry[market_id])
                        /\ time_to_close(BtcExpiry[market_id]) <= horizon }
              added == IF enriches THEN now_candidates \ DOMAIN _watchlist ELSE {}
              stale == DOMAIN _watchlist \ now_candidates
          IN  _watchlist' =
                  [ market_id \in (DOMAIN _watchlist \cup added) \ stale |->
                        IF market_id \in DOMAIN _watchlist
                        THEN _watchlist[market_id]
                        ELSE WatchlistEntry(EnrichedBtcMarket(market_id, best_ask)) ]
    /\ UNCHANGED <<trade_vars, boot_vars, stop_vars, feed_vars, engine_vars,
                   hot_todo, hot_market, now>>

\* The orders in which list(self._watchlist.items()) can yield the entries.
Orderings(watchlist) ==
    { order \in [1..Cardinality(DOMAIN watchlist) -> DOMAIN watchlist] :
          \A i, j \in DOMAIN order : order[i] = order[j] => i = j }

\* self._watchlist.pop(market_id, None)
Popped(watchlist, market_id) ==
    [ watched \in DOMAIN watchlist \ {market_id} |-> watchlist[watched] ]

\* The body of _hot_loop_tick from one suspension point to the next, on the
\* entries todo still to visit: an expired market is popped from the
\* watch-list, a market outside the late window is passed over, and at the
\* first market inside the window the tick awaits _refresh_orderbooks.  The
\* result is the watch-list, the entries left and the market at the refresh.
RECURSIVE TickUntilAwait(_, _)
TickUntilAwait(watchlist, todo) ==
    IF todo = <<>>
    THEN [ watchlist |-> watchlist, hot_todo |-> <<>>, hot_market |-> None ]
    ELSE LET market_entry == Head(todo)
             secs == time_to_close(market_entry.expires_at)
         IN  IF secs <= 0
             THEN TickUntilAwait(Popped(watchlist, market_entry.market_id), Tail(todo))
             ELSE IF ~is_within_late_window(secs, settings.late_market_window_start,
                                            settings.late_market_window_end)
             THEN TickUntilAwait(watchlist, Tail(todo))
             ELSE [ watchlist  |-> watchlist,
                    hot_todo   |-> Tail(todo),
                    hot_market |-> Some([ market |-> market_entry, secs |-> secs,
                                          refreshed |-> None ]) ]

\* The tick goes on from the entries todo to its next suspension point.
TickContinues(watchlist, todo) ==
    /\ _watchlist' = TickUntilAwait(watchlist, todo).watchlist
    /\ hot_todo' = TickUntilAwait(watchlist, todo).hot_todo
    /\ hot_market' = TickUntilAwait(watchlist, todo).hot_market

\* _hot_loop_tick starts on a non-empty watch-list and runs to its first
\* suspension point or to its end.
HotLoopTickStart ==
    /\ settings.enable_late_market
    /\ "hot_loop_interval_ms" \in DOMAIN settings
    /\ hot_todo = <<>>
    /\ hot_market = None
    /\ DOMAIN _watchlist # {}
    /\ \E order \in Orderings(_watchlist) :
          TickContinues(_watchlist, [i \in DOMAIN order |-> _watchlist[order[i]]])
    /\ UNCHANGED <<trade_vars, boot_vars, stop_vars, feed_vars, engine_vars, now>>

\* _refresh_orderbooks has returned: the refreshed snapshot, the tick's copy
\* of the entry with new orderbooks, is written to the watch-list under the
\* market's id and put on market_queue.  With room in the queue the put does
\* not suspend and the tick goes on; on a full queue the tick waits in put.
HotLoopRefreshed ==
    /\ \E in_refresh \in hot_market, best_ask \in WatchAsks :
          LET refreshed == [in_refresh.market EXCEPT !.best_ask = best_ask]
              written == SetFields(_watchlist, (in_refresh.market.market_id :> refreshed))
          IN  /\ in_refresh.refreshed = None
              /\ IF HasRoom(market_queue, 1, MarketQueueCapacity)
                 THEN /\ market_queue' = Append(market_queue, refreshed)
                      /\ TickContinues(written, hot_todo)
                 ELSE /\ _watchlist' = written
                      /\ hot_market' = Some([in_refresh EXCEPT !.refreshed = Some(refreshed)])
                      /\ UNCHANGED <<market_queue, hot_todo>>
    /\ UNCHANGED <<trade_vars, boot_vars, stop_vars, feed_vars, scanned, market, btc_feed,
                   _recently_signaled, cleanup_counter, now>>

\* The put that waited on the full queue completes and the tick goes on.
HotLoopPut ==
    /\ \E in_refresh \in hot_market : \E refreshed \in in_refresh.refreshed :
          /\ HasRoom(market_queue, 1, MarketQueueCapacity)
          /\ market_queue' = Append(market_queue, refreshed)
    /\ TickContinues(_watchlist, hot_todo)
    /\ UNCHANGED <<trade_vars, boot_vars, stop_vars, feed_vars, scanned, market, btc_feed,
                   _recently_signaled, cleanup_counter, now>>

\* The signal engine takes the oldest snapshot from market_queue; what it
\* does with the snapshot leaves the scanner as it is.
MarketQueueGet ==
    /\ market_queue # <<>>
    /\ market_queue' = Tail(market_queue)
    /\ UNCHANGED <<trade_vars, boot_vars, stop_vars, feed_vars, scanned, market, btc_feed,
                   _recently_signaled, cleanup_counter, watch_vars>>

-----------------------------------------------------------------------------
(* Signal engine loop (signal_engine.py: SignalEngine.start)               *)

\* The dedup set is cleared every CleanupPeriod processed snapshots.
CleanupPeriod == 200

\* An optional result as a sequence of zero or one element.
ToSeq(opt) == IF opt = None THEN <<>> ELSE << CHOOSE x \in opt : TRUE >>

\* Variant of the loop body that runs the late-market detector first.
LateDetectorFirst(m, feed) ==
    LET late == IF settings.enable_late_market
                THEN ToSeq(_check_late_market(m, feed, issued + 1))
                ELSE <<>>
        one_of_many == IF settings.enable_one_of_many
                       THEN ToSeq(_check_one_of_many_arb(m, issued + 1 + Len(late)))
                       ELSE <<>>
        yes_no == IF settings.enable_yes_no
                  THEN ToSeq(_check_yes_no_arb(m, issued + 1 + Len(late) + Len(one_of_many)))
                  ELSE <<>>
    IN  late \o one_of_many \o yes_no

\* The signals the enabled detectors return for the snapshot, in the order
\* the loop runs them; each takes the next position id.
DetectedSignals(m, feed) ==
    LET one_of_many == IF settings.enable_one_of_many
                       THEN ToSeq(_check_one_of_many_arb(m, issued + 1))
                       ELSE <<>>
        yes_no == IF settings.enable_yes_no
                  THEN ToSeq(_check_yes_no_arb(m, issued + 1 + Len(one_of_many)))
                  ELSE <<>>
        late == IF settings.enable_late_market
                THEN ToSeq(_check_late_market(m, feed,
                                              issued + 1 + Len(one_of_many) + Len(yes_no)))
                ELSE <<>>
    IN  one_of_many \o yes_no \o late

\* The loop reaches the detectors: settings.btc_5m_only can be read (config.py
\* does not declare it, so a Settings object without it raises
\* AttributeError, which the loop's except swallows) and the gate lets the
\* snapshot through.
GatePassed(m) ==
    /\ "btc_5m_only" \in DOMAIN settings
    /\ settings.btc_5m_only => m.is_btc_5m

\* market = await wait_for(market_queue.get(), 30) returns a snapshot; the
\* feed is in the state it has while the snapshot is processed.
EngineGet ==
    /\ market = NoMarket
    /\ issued < MaxSignals
    /\ market_queue # <<>>
    /\ market' = Oldest(market_queue)
    /\ market_queue' = Tail(market_queue)
    /\ \E input \in scanned :
          /\ input.market = market'
          /\ btc_feed' = input.feed
    /\ UNCHANGED <<settings, bot_vars, signal_queue, issued, store_vars, guard_vars, record_calls,
                   api_calls, exec_vars, exchange_vars, resolver_vars, scanned,
                   _recently_signaled, cleanup_counter>>

\* The wait on market_queue times out, nothing having arrived for 30 s: the
\* dedup set is cleared.
EngineQueueTimeout ==
    /\ market = NoMarket
    /\ market_queue = <<>>
    /\ _recently_signaled' = {}
    /\ UNCHANGED <<settings, bot_vars, signal_queue, issued, store_vars, guard_vars, record_calls,
                   api_calls, exec_vars, exchange_vars, resolver_vars, scanned, market_queue,
                   market, btc_feed, cleanup_counter>>

\* One pass of the loop body on the snapshot taken: the gate, the detectors,
\* the puts on signal_queue and the periodic cleanup.  A put waits while
\* signal_queue is full, so the pass ends once there is room for its signals.
EngineProcess ==
    /\ market # NoMarket
    /\ market' = NoMarket
    /\ btc_feed' = NoFeed
    /\ IF GatePassed(market)
       THEN LET signals == DetectedSignals(market, btc_feed)
                late == {signals[i].market_id :
                           i \in {j \in DOMAIN signals : signals[j].strategy = "late_market"}}
            IN  /\ HasRoom(signal_queue, Len(signals), SignalQueueCapacity)
                /\ signal_queue' = signal_queue \o signals
                /\ issued' = issued + Len(signals)
                /\ cleanup_counter' = (cleanup_counter + 1) % CleanupPeriod
                /\ _recently_signaled' =
                      IF (cleanup_counter + 1) % CleanupPeriod = 0
                      THEN {}
                      ELSE _recently_signaled \cup late
       ELSE UNCHANGED <<signal_queue, issued, cleanup_counter, _recently_signaled>>
    /\ UNCHANGED <<settings, bot_vars, store_vars, guard_vars, record_calls, api_calls, exec_vars,
                   exchange_vars, resolver_vars, scanned, market_queue>>

-----------------------------------------------------------------------------
(* The inputs of the signal engine: snapshots and feed states              *)

\* Ask levels: enough for every leg, and exactly enough for the legs of the
\* small bankroll.
Deep == <<3000, 30000>>

Thin == <<300, 200>>

\* A two-outcome market away from its close.
BinaryMarket(names, asks, spread_pct, sizes, seconds_left) ==
    Snapshot("m_yes_no", FALSE, seconds_left,
             << Outcome(names[1], asks[1], spread_pct, sizes),
                Outcome(names[2], asks[2], spread_pct, sizes) >>)

BinaryMarkets ==
    { BinaryMarket(names, asks, Some(150), Deep, Some(3600)) :
        names \in { <<"Yes", "No">>, <<"DOWN", "UP">>, <<"Yes", "Maybe">>, <<"Yes ", "No">> },
        asks \in { <<Some(400), Some(500)>>, <<Some(400), Some(510)>>,
                   <<Some(800), Some(100)>>, <<None, Some(500)>> } }
    \cup
    { BinaryMarket(<<"Yes", "No">>, <<Some(400), Some(500)>>, spread_pct, sizes, seconds_left) :
        spread_pct \in {Some(150), Some(151), None},
        sizes \in {Deep, Thin},
        seconds_left \in {Some(3600), Some(1800), Some(1799), None} }
    \cup
    { Snapshot("m_yes_no", FALSE, Some(3600),
               << Outcome("Yes", Some(400), Some(150), Deep),
                  Outcome("No", Some(500), Some(150), Thin) >>),
      Snapshot("m_yes_no", FALSE, Some(3600),
               << Outcome("Yes", Some(400), Some(150), Deep) >>) }

\* A market with four outcomes.
MultiMarket(asks, spread_pct, sizes, seconds_left) ==
    LET names == <<"A", "B", "C", "D">>
    IN  Snapshot("m_one_of_many", FALSE, seconds_left,
                 [i \in DOMAIN asks |-> Outcome(names[i], asks[i], spread_pct, sizes)])

MultiMarkets ==
    { MultiMarket(asks, Some(200), Deep, Some(3600)) :
        asks \in { <<Some(200), Some(200), Some(250), Some(250)>>,
                   <<Some(200), Some(200), Some(250), Some(260)>>,
                   <<Some(200), None, Some(250), Some(250)>> } }
    \cup
    { MultiMarket(<<Some(200), Some(200), Some(250), Some(250)>>, spread_pct, sizes, seconds_left) :
        spread_pct \in {Some(200), Some(201), None},
        sizes \in {Deep, Thin},
        seconds_left \in {Some(1800), Some(1799)} }

\* A BTC 5-minute Up/Down market.
LateMarket(is_btc_5m, seconds_left, up_ask, spread_pct, sizes) ==
    Snapshot("m_btc_5m", is_btc_5m, seconds_left,
             << Outcome("Up", up_ask, spread_pct, sizes),
                Outcome("Down", Some(500), spread_pct, sizes) >>)

LateMarkets ==
    { LateMarket(TRUE, seconds_left, Some(500), Some(100), Deep) :
        seconds_left \in {Some(180), Some(60), Some(181), Some(59), None} }
    \cup
    { LateMarket(TRUE, Some(120), up_ask, spread_pct, sizes) :
        up_ask \in {Some(500), Some(950), Some(960), None},
        spread_pct \in {Some(100), Some(101)},
        sizes \in {Deep, Thin} }
    \cup
    { LateMarket(FALSE, Some(120), Some(500), Some(100), Deep),
      LateMarket(TRUE, Some(120), Some(400), Some(100), Deep) }

\* The feed: BTC rising by 0.1 percent over the history.
Rising ==
    [ price      |-> Some(100100),
      volatility |-> 10,
      history    |-> <<100000, 100020, 100050, 100080, 100100>> ]

\* Other feed states: no price yet, falling, flat within the minimum
\* deviation, too volatile, fewer than five prices.
Feeds ==
    { Rising,
      [ price |-> None, volatility |-> 0, history |-> <<>> ],
      [ Rising EXCEPT !.price = Some(99900),
                      !.history = <<100000, 99980, 99950, 99920, 99900>> ],
      [ Rising EXCEPT !.price = Some(100040),
                      !.history = <<100000, 100010, 100020, 100030, 100040>> ],
      [ Rising EXCEPT !.volatility = 151 ],
      [ Rising EXCEPT !.history = <<100000, 100050, 100080, 100100>> ] }

\* What the engine can be given in one pass: a snapshot and the state of the
\* feed at that moment.
Inputs ==
    { [market |-> m, feed |-> Rising] : m \in BinaryMarkets \cup MultiMarkets \cup LateMarkets }
    \cup
    { [market |-> LateMarket(TRUE, Some(120), Some(500), Some(100), Deep), feed |-> f] :
        f \in Feeds }

\* A run of the scanner presents one input again and again (the hot loop
\* polls the same market until its window closes).
Sources == { {input} : input \in Inputs }

\* A Settings object that carries the fields the loops read and config.py
\* does not declare: btc_5m_only and hot_loop_interval_ms.
WithGate(config, btc_5m_only) ==
    SetFields(config, [btc_5m_only |-> btc_5m_only, hot_loop_interval_ms |-> 500])

EngineConfigs ==
    { WithGate(Config(200 * Scale, 2, TRUE), FALSE),
      WithGate(Config(20 * Scale, 2, TRUE), FALSE),
      WithGate(Config(200 * Scale, 2, TRUE), TRUE),
      Config(200 * Scale, 2, TRUE),
      [ WithGate(Config(200 * Scale, 2, TRUE), FALSE)
            EXCEPT !.min_time_to_close_minutes = 1, !.enable_one_of_many = FALSE ] }

-----------------------------------------------------------------------------
(* Start-up and shutdown (main.py)                                         *)

\* create_task has been called on the component's start()
TaskRuns(name) == \E i \in 1..Len(tasks) : tasks[i] = name

\* The except clause of TradingBot.start: stop() stops what was started and
\* the error is raised again.
BootFatal ==
    /\ boot' = "stopped"
    /\ tasks' = <<>>
    /\ UNCHANGED running

\* await init_db()
BootInitDb ==
    /\ boot = "init_db"
    /\ \E connected \in BOOLEAN :
          IF connected
          THEN /\ tasks' = Append(tasks, "store")
               /\ boot' = "init_clob_client"
               /\ UNCHANGED running
          ELSE BootFatal
    /\ UNCHANGED <<settings, signal_queue, issued, store_vars, guard_vars, record_calls,
                   api_calls, exec_vars, exchange_vars, resolver_vars, engine_vars,
                   returned, feed_vars, watch_vars>>

\* await init_clob_client(): a failure is fatal unless settings.dry_run
BootInitClobClient ==
    /\ boot = "init_clob_client"
    /\ \E initialized \in BOOLEAN :
          IF initialized
          THEN /\ tasks' = Append(tasks, "exchange client")
               /\ boot' = "start_binance_feed"
               /\ UNCHANGED running
          ELSE IF settings.dry_run
          THEN /\ tasks' = tasks
               /\ boot' = "start_binance_feed"
               /\ UNCHANGED running
          ELSE BootFatal
    /\ UNCHANGED <<settings, signal_queue, issued, store_vars, guard_vars, record_calls,
                   api_calls, exec_vars, exchange_vars, resolver_vars, engine_vars,
                   returned, feed_vars, watch_vars>>

\* start_x(): create_task(x.start()), whose first statement sets x.running
StartTask(name, then) ==
    /\ tasks' = Append(tasks, name)
    /\ running' = running \cup {name}
    /\ boot' = then

\* if settings.enable_late_market: await start_binance_feed()
BootBinanceFeed ==
    /\ boot = "start_binance_feed"
    /\ IF settings.enable_late_market
       THEN StartTask("price feed", "start_scanner")
       ELSE boot' = "start_scanner" /\ UNCHANGED <<tasks, running>>
    /\ UNCHANGED <<settings, signal_queue, issued, store_vars, guard_vars, record_calls,
                   api_calls, exec_vars, exchange_vars, resolver_vars, engine_vars,
                   returned, feed_vars, watch_vars>>

\* await start_scanner(self.market_queue)
BootScanner ==
    /\ boot = "start_scanner"
    /\ StartTask("scanner", "start_signal_engine")
    /\ UNCHANGED <<settings, signal_queue, issued, store_vars, guard_vars, record_calls,
                   api_calls, exec_vars, exchange_vars, resolver_vars, engine_vars,
                   returned, feed_vars, watch_vars>>

\* await start_signal_engine(self.market_queue, self.signal_queue)
BootSignalEngine ==
    /\ boot = "start_signal_engine"
    /\ StartTask("signal engine", "start_executor")
    /\ UNCHANGED <<settings, signal_queue, issued, store_vars, guard_vars, record_calls,
                   api_calls, exec_vars, exchange_vars, resolver_vars, engine_vars,
                   returned, feed_vars, watch_vars>>

\* await start_executor(self.signal_queue), "All systems operational!" and
\* self.running = True
BootExecutor ==
    /\ boot = "start_executor"
    /\ StartTask("executor", "operational")
    /\ UNCHANGED <<settings, signal_queue, issued, store_vars, guard_vars, record_calls,
                   api_calls, exec_vars, exchange_vars, resolver_vars, engine_vars,
                   returned, feed_vars, watch_vars>>

\* TradingBot.start
Boot ==
    \/ BootInitDb
    \/ BootInitClobClient
    \/ BootBinanceFeed
    \/ BootScanner
    \/ BootSignalEngine
    \/ BootExecutor

\* TradingBot.stop on a shutdown signal, up to `await self.scanner.stop()`:
\* scanner.running is cleared and the HTTP session is being closed.
BotStopScanner ==
    /\ boot = "operational"
    /\ boot' = "stopping"
    /\ running' = running \ {"scanner"}
    /\ UNCHANGED <<settings, signal_queue, issued, store_vars, guard_vars, record_calls,
                   api_calls, exec_vars, exchange_vars, resolver_vars, engine_vars,
                   tasks, returned, feed_vars, watch_vars>>

\* TradingBot.stop from there on: the stop() of signal engine, executor and
\* price feed clear their flags, and close_db().
BotStopComponents ==
    /\ boot = "stopping"
    /\ boot' = "stopped"
    /\ running' = running \ {"signal engine", "executor", "price feed"}
    /\ ws' = "none"
    /\ UNCHANGED <<trade_vars, engine_vars, tasks, returned, silent, price_history,
                   watch_vars>>

\* _arb_scan_loop: the test of `while self.running` after a scan and its
\* sleep finds the flag cleared.
ArbScanReturn ==
    /\ "scanner" \notin running
    /\ "scanner" \notin returned
    /\ returned' = returned \cup {"scanner"}
    /\ UNCHANGED <<settings, signal_queue, issued, store_vars, guard_vars, record_calls,
                   api_calls, exec_vars, exchange_vars, resolver_vars, engine_vars,
                   boot_vars, running, feed_vars, watch_vars>>

\* SignalEngine.start: the test of `while self.running` after a pass or
\* after the 30 s timeout of the wait on market_queue finds the flag
\* cleared.
EngineReturn ==
    /\ market = NoMarket
    /\ "signal engine" \notin running
    /\ "signal engine" \notin returned
    /\ returned' = returned \cup {"signal engine"}
    /\ UNCHANGED <<settings, signal_queue, issued, store_vars, guard_vars, record_calls,
                   api_calls, exec_vars, exchange_vars, resolver_vars, engine_vars,
                   boot_vars, running, feed_vars, watch_vars>>

\* Every component has been started, the resolver by
\* start_position_resolver: the state in which the specifications of the
\* components begin.
Started ==
    /\ boot = "operational"
    /\ tasks = <<"store", "exchange client", "price feed", "scanner", "signal engine",
                 "executor", "resolver">>
    /\ running = {"price feed", "scanner", "signal engine", "executor", "resolver"}

-----------------------------------------------------------------------------
(* Price feed (binance_feed.py), for the symbol btcusdt                    *)

\* Ticker prices a message can carry; 0 stands for a message without a
\* usable price (another symbol, price 0, no JSON).
TickerPrices == {0, 67000, 67100}

\* _process_message: a usable price is appended to the history, which keeps
\* the newest HistoryLimit prices.
ProcessedHistory(history, price) ==
    IF price > 0
    THEN LET appended == Append(history, price)
         IN  IF Len(appended) > HistoryLimit THEN Tail(appended) ELSE appended
    ELSE history

\* BinanceFeed.start enters _connect_and_listen: websockets.connect(url)
\* succeeds, or raises and the loop retries after 5 s.
FeedConnect ==
    /\ "price feed" \in running
    /\ ws = "none"
    /\ ws' \in {"open", "none"}
    /\ silent' = 0
    /\ UNCHANGED <<trade_vars, engine_vars, boot_vars, stop_vars, price_history, watch_vars>>

\* recv() returns a message within 30 s.
FeedMessage ==
    /\ "price feed" \in running
    /\ ws = "open"
    /\ \E price \in TickerPrices : price_history' = ProcessedHistory(price_history, price)
    /\ silent' = 0
    /\ UNCHANGED <<trade_vars, engine_vars, boot_vars, stop_vars, ws, watch_vars>>

\* wait_for(recv(), 30) times out: the handler sends a ping and the loop
\* waits for the next message on the same connection.
FeedSilentWindow ==
    /\ "price feed" \in running
    /\ ws = "open"
    /\ silent < MaxSilent
    /\ silent' = silent + 1
    /\ UNCHANGED <<trade_vars, engine_vars, boot_vars, stop_vars, ws, price_history,
                   watch_vars>>

\* recv() or ping() raises (the peer closed the connection): the inner loop
\* is left and with it the connection.
FeedConnectionLost ==
    /\ "price feed" \in running
    /\ ws = "open"
    /\ ws' = "none"
    /\ silent' = 0
    /\ UNCHANGED <<trade_vars, engine_vars, boot_vars, stop_vars, price_history, watch_vars>>

\* BinanceFeed.start: `while self.running` finds the flag cleared, stop()
\* having closed the connection.
FeedReturn ==
    /\ TaskRuns("price feed")
    /\ "price feed" \notin running
    /\ "price feed" \notin returned
    /\ ws = "none"
    /\ returned' = returned \cup {"price feed"}
    /\ UNCHANGED <<trade_vars, engine_vars, boot_vars, running, feed_vars, watch_vars>>

Feed ==
    \/ FeedConnect
    \/ FeedMessage
    \/ FeedSilentWindow
    \/ FeedConnectionLost
    \/ FeedReturn

-----------------------------------------------------------------------------
(* Specifications                                                          *)

\* The tasks and the store before the first step of any task; the positions
\* collection is what the database holds when the bot starts.
PipelineInit ==
    /\ signal_queue = <<>>
    /\ issued = 0
    /\ pnl_daily = <<>>
    /\ events_log = {}
    /\ consecutive_fails = 0
    /\ trading_halted = FALSE
    /\ halt_reason = ""
    /\ record_calls = [p \in Ids |-> <<>>]
    /\ api_calls = 0
    /\ pc = "idle"
    /\ signal = NoSignal
    /\ open_count = 0
    /\ current_exposure = 0
    /\ today_pnl = 0
    /\ reason = <<>>
    /\ success = FALSE
    /\ exchange_orders = {}
    /\ cancel_attempts = {}
    /\ rpc = "sleep"
    /\ open_positions = <<>>
    /\ resolved = [pnl |-> 0, strategy |-> ""]
    /\ market_queue = <<>>
    /\ market = NoMarket
    /\ btc_feed = NoFeed
    /\ _recently_signaled = {}
    /\ cleanup_counter = 0
    /\ returned = {}
    /\ ws = "none"
    /\ silent = 0
    /\ price_history = <<>>
    /\ _watchlist = <<>>
    /\ hot_todo = <<>>
    /\ hot_market = None
    /\ now = 0

Init ==
    /\ settings \in Configs
    /\ scanned = {}
    /\ positions = <<>>
    /\ Started
    /\ PipelineInit

Executor ==
    \/ ExecValidate
    \/ ExecValidateExposure
    \/ ExecValidatePnl
    \/ ExecRejected
    \/ ExecCreatePosition
    \/ ExecDryRun
    \/ ExecLivePlace
    \/ ExecLiveTimeout
    \/ ExecLiveFinish
    \/ ExecRecordResult

Resolver ==
    \/ ResolverTick
    \/ ResolverCheck
    \/ ResolverRollup

Next ==
    \/ EmitSignal
    \/ Executor
    \/ Resolver

\* Signal engine, executor and resolver on one store: the bot with the
\* resolver started by start_position_resolver.
Spec == Init /\ [][Next]_vars

TradeNext ==
    \/ EmitSignal
    \/ Executor

\* Signal engine and executor, the executor task scheduled fairly: the
\* event loop runs the executor whenever its next step is ready, and each
\* of its awaits returns (the wait on the exchange is bounded by
\* order_timeout_seconds).
FairSpec == Init /\ [][TradeNext]_vars /\ WF_vars(Executor)

GuardApi ==
    \/ ApiRecordTradeResult
    \/ ApiHaltTrading
    \/ ApiResumeTrading

GuardNext ==
    \/ EmitSignal
    \/ Executor
    \/ GuardApi

\* The risk guard with its callers: the executor, and outside callers of
\* its public methods.
GuardSpec == Init /\ [][GuardNext]_vars

EngineInit ==
    /\ settings \in EngineConfigs
    /\ scanned \in Sources
    /\ positions = <<>>
    /\ Started
    /\ PipelineInit

Scanner ==
    \/ ArbScanPut
    \/ HotLoopTick

Engine ==
    \/ EngineGet
    \/ EngineQueueTimeout
    \/ EngineProcess

EngineNext ==
    \/ Scanner
    \/ Engine

\* Scanner and signal engine on the snapshots of one scanner run; the
\* signals stay on signal_queue.
EngineSpec == EngineInit /\ [][EngineNext]_vars

\* A scanner run over two snapshots of a YES/NO market, each with an
\* arbitrage.
QueueSource ==
    { [market |-> BinaryMarket(<<"Yes", "No">>, asks, Some(150), Deep, Some(3600)),
       feed   |-> Rising] :
        asks \in { <<Some(400), Some(500)>>, <<Some(800), Some(100)>> } }

\* Settings with the late-market strategy off: the scanner then starts the
\* arb scan loop only.
ArbOnly(config) == [WithGate(config, FALSE) EXCEPT !.enable_late_market = FALSE]

QueueInit ==
    /\ settings \in { ArbOnly(Config(200 * Scale, 2, TRUE)),
                      ArbOnly(Config(200 * Scale, 1, FALSE)) }
    /\ scanned = QueueSource
    /\ positions = <<>>
    /\ Started
    /\ PipelineInit

QueueNext ==
    \/ ArbScanPut
    \/ Engine
    \/ Executor

\* Scanner, signal engine and executor, as main.py starts them, with the
\* two queues between them.
QueueSpec == QueueInit /\ [][QueueNext]_vars

\* Settings of a run of the whole bot: dry run and live with the arbitrage
\* strategy alone, and a dry run with the late-market strategy as well.
BotConfigs ==
    { ArbOnly(Config(200 * Scale, 2, TRUE)),
      ArbOnly(Config(200 * Scale, 1, FALSE)),
      WithGate(Config(200 * Scale, 2, TRUE), FALSE) }

BotInit ==
    /\ settings \in BotConfigs
    /\ scanned = QueueSource
    /\ positions = <<>>
    /\ boot = "init_db"
    /\ tasks = <<>>
    /\ running = {}
    /\ PipelineInit

\* A task takes steps once TradingBot.start has created it.  No snapshot of
\* QueueSource is a BTC market, so the hot loop has nothing to push; and
\* main.py has no call of start_position_resolver, so no step of the
\* resolver is among the steps of the bot.
BotNext ==
    \/ Boot
    \/ BotStopScanner
    \/ BotStopComponents
    \/ TaskRuns("scanner") /\ "scanner" \notin returned /\ ArbScanPut
    \/ TaskRuns("scanner") /\ ArbScanReturn
    \/ TaskRuns("signal engine") /\ "signal engine" \notin returned /\ Engine
    \/ TaskRuns("signal engine") /\ EngineReturn
    \/ TaskRuns("executor") /\ Executor

\* The bot from `python main.py` on: TradingBot.start, the tasks it
\* creates, and TradingBot.stop.
BotSpec == BotInit /\ [][BotNext]_vars

FeedInit ==
    /\ settings = WithGate(Config(200 * Scale, 2, TRUE), FALSE)
    /\ scanned = {}
    /\ positions = <<>>
    /\ Started
    /\ PipelineInit

\* The price feed from its start to the shutdown of the bot.
FeedSpec == FeedInit /\ [][Feed \/ BotStopScanner \/ BotStopComponents]_vars

\* One listing of the Gamma API as the arb scan loop fetches it.  Each
\* market has its own id; the first is a YES/NO arbitrage that passes every
\* filter, the last is a BTC 5-minute market two minutes from its close.
\* The others differ from the first in one respect: not active, volume
\* below the minimum, 59 s from the close, no endDate, a single outcome, the
\* token ids in `tokens` instead of clobTokenIds, and token ids that match
\* the outcomes in neither field.
ArbSource ==
    LET gamma == [ active |-> TRUE, volume |-> 5000, seconds_to_close |-> Some(3600),
                   clobTokenIds |-> 2, tokens |-> 0 ]
        arb(seconds_left) ==
            BinaryMarket(<<"Yes", "No">>, <<Some(400), Some(500)>>, Some(150), Deep,
                         seconds_left)
        Listed(market_id, snapshot, fields) ==
            [ market |-> [snapshot EXCEPT !.market_id = market_id],
              feed   |-> Rising,
              gamma  |-> SetFields(gamma, fields) ]
    IN  { Listed("m_yes_no", arb(Some(3600)), <<>>),
          Listed("m_inactive", arb(Some(3600)), [active |-> FALSE]),
          Listed("m_low_volume", arb(Some(3600)), [volume |-> 4999]),
          Listed("m_closing", arb(Some(59)), [seconds_to_close |-> Some(59)]),
          Listed("m_no_end", arb(None), [seconds_to_close |-> None]),
          Listed("m_one_outcome",
                 Snapshot("", FALSE, Some(3600), << Outcome("Yes", Some(400), Some(150), Deep) >>),
                 [clobTokenIds |-> 1]),
          Listed("m_tokens_field", arb(Some(3600)), [clobTokenIds |-> 0, tokens |-> 2]),
          Listed("m_mismatch", arb(Some(3600)), [clobTokenIds |-> 3]),
          Listed("m_btc_5m", LateMarket(TRUE, Some(120), Some(500), Some(100), Deep),
                 [seconds_to_close |-> Some(120)]) }

ArbInit ==
    /\ settings \in { WithGate(Config(200 * Scale, 2, TRUE), FALSE),
                      [ WithGate(Config(200 * Scale, 2, TRUE), FALSE)
                            EXCEPT !.min_time_to_close_minutes = 1 ] }
    /\ scanned = ArbSource
    /\ positions = <<>>
    /\ Started
    /\ PipelineInit

\* The settings carry the two keys the feeder and the hot loop read and
\* config.py does not declare.
WatchInit ==
    /\ settings = SetFields(WithGate(Config(200 * Scale, 2, TRUE), FALSE),
                            [ watchlist_horizon_seconds |-> 300,
                              hot_loop_interval_ms      |-> 500 ])
    /\ scanned = {}
    /\ positions = <<>>
    /\ Started
    /\ PipelineInit

\* The watch-list feeder and the hot loop of one scanner, with the clock and
\* the signal engine as the taker of market_queue.
WatchSpec ==
    WatchInit /\ [][ \/ ClockAdvance
                     \/ WatchlistRefresh
                     \/ HotLoopTickStart
                     \/ HotLoopRefreshed
                     \/ HotLoopPut
                     \/ MarketQueueGet ]_vars

\* The arb scan loop and the signal engine, the watch-list being empty.
ArbSpec == ArbInit /\ [][ArbScanPut \/ Engine]_vars

\* The signals the detectors return on the inputs.
DetectableSignals ==
    UNION { {DetectedSignals(input.market, input.feed)[i] :
               i \in DOMAIN DetectedSignals(input.market, input.feed)} : input \in Inputs }

\* The responses of a live execution in which every leg fills one tick above
\* its price.
SlippedFills(sig) ==
    [i \in DOMAIN sig.legs |->
        DictResult([order_id |-> OrderId(sig.position_id, i), status |-> "filled",
                    fill_price |-> sig.legs[i].price + 1, size |-> sig.legs[i].size_tokens])]

\* The open position the executor leaves for a signal: the simulated fill
\* in dry-run mode, the verified fills in live mode.
OpenedPosition(sig) ==
    IF settings.dry_run
    THEN DryRunPosition(sig)
    ELSE LivePosition(sig, VerifiedOrders(sig, SlippedFills(sig)))

\* The bot starts on a database that holds one open position, opened by the
\* executor from a detector signal in an earlier run.
ResolveInit ==
    /\ settings \in Configs
    /\ scanned = {}
    /\ Started
    /\ PipelineInit
    /\ \E sig \in DetectableSignals :
          positions = create_position(<<>>, OpenedPosition(sig))

ResolveNext == Resolver

\* The position resolver on the positions an earlier run left open.
ResolveSpec == ResolveInit /\ [][ResolveNext]_vars

-----------------------------------------------------------------------------
(* Properties                                                              *)

\* The status changes the lifecycle pending -> open -> closed | failed has.
AllowedStatusChanges ==
    { <<"pending", "open">>, <<"pending", "failed">>, <<"open", "closed">> }

\* What a step may do to the record of position p.
StatusStep(p) ==
    IF p \in DOMAIN positions
    THEN /\ p \in DOMAIN positions'
         /\ \/ positions'[p].status = positions[p].status
            \/ <<positions[p].status, positions'[p].status>> \in AllowedStatusChanges
    ELSE p \in DOMAIN positions' => positions'[p].status = "pending"

\* C1: across any interleaving of executor and resolver steps, a position
\* record starts pending and its status changes only along pending -> open,
\* pending -> failed and open -> closed; closed and failed are terminal.
C1_StatusTransitions == [][\A p \in Ids : StatusStep(p)]_vars

\* A run in which one position was closed by the resolver and another failed.
C1_Witness ==
    \E p, q \in DOMAIN positions :
        positions[p].status = "closed" /\ positions[q].status = "failed"

\* Sum of actual_total_cost over the open positions
ActualExposure ==
    SumOver(OpenIds(positions),
            [p \in OpenIds(positions) |-> positions[p].actual_total_cost])

\* C2: in every reachable state the sum of actual_total_cost over the open
\* positions is at most max_daily_exposure.
C2_ActualExposureBounded == ActualExposure <= max_daily_exposure

\* C3: in every reachable state the number of open positions is at most
\* max_concurrent_positions.
C3_OpenCountBounded ==
    count_open_positions(positions) <= settings.max_concurrent_positions

\* The limit is reached and the next signal is rejected for it.
C3_Witness ==
    /\ pc = "reject"
    /\ reason = <<"Max concurrent positions reached">>
    /\ count_open_positions(positions) = settings.max_concurrent_positions

\* C4: once the guard is halted, halted stays true through every step
\* other than resume_trading (validate_trade and record_trade_result calls
\* included, also with success = true), and every validate_trade call
\* entered while halted rejects with the halt as its reason.
C4_HaltSticky ==
    [][ /\ (trading_halted /\ ~ApiResumeTrading) => trading_halted'
        /\ (trading_halted /\ pc = "idle" /\ pc' # "idle") =>
              /\ pc' = "reject"
              /\ reason' = <<"Trading halted", halt_reason>> ]_vars

\* A signal is rejected by a halt that has outlived a successful result:
\* the first signal's failure was counted and the counter is back at 0.
C4_Witness ==
    /\ trading_halted
    /\ halt_reason = "Manual halt"
    /\ pc = "reject"
    /\ reason = <<"Trading halted", "Manual halt">>
    /\ consecutive_fails = 0
    /\ record_calls[1] = <<FALSE>>

\* A step that is a call record_trade_result(_, is_success, _), by the
\* executor or by an outside caller.
RecordStep(is_success) ==
    \/ pc = "record" /\ pc' = "idle" /\ success = is_success
    \/ \E args \in ApiResults :
          args[1] = is_success /\ ApiRecordTradeResultWith(args[1], args[2])

\* C5: record_trade_result with success = false increments consecutive_fails
\* by one and halts exactly when the counter has reached
\* max_consecutive_fails; with success = true it resets the counter to 0
\* and leaves the halt as it is; and in every state reached
\* consecutive_fails >= max_consecutive_fails implies halted.
C5_ConsecutiveFails ==
    [][ /\ RecordStep(FALSE) =>
              /\ consecutive_fails' = consecutive_fails + 1
              /\ trading_halted' <=>
                    (trading_halted \/ consecutive_fails' >= settings.max_consecutive_fails)
        /\ RecordStep(TRUE) =>
              /\ consecutive_fails' = 0
              /\ trading_halted' = trading_halted
        /\ consecutive_fails' >= settings.max_consecutive_fails => trading_halted' ]_vars

\* The failure that brings the counter to max_consecutive_fails has halted.
C5_Witness ==
    /\ trading_halted
    /\ halt_reason = "consecutive failed trades"
    /\ consecutive_fails = settings.max_consecutive_fails

\* The step at which a validate_trade call returns its verdict.
ValidationEnds == pc \in {"idle", "exposure", "pnl"} /\ pc' \in {"reject", "create"}

\* The five conditions of acceptance, on the guard and the store as they are.
Acceptable(sig) ==
    /\ ~trading_halted
    /\ sig.total_cost <= (IF sig.strategy = "late_market"
                          THEN max_late_position_size
                          ELSE max_arb_position_size)
    /\ count_open_positions(positions) < settings.max_concurrent_positions
    /\ get_total_exposure(positions) + sig.total_cost <= max_daily_exposure
    /\ _get_today_pnl(pnl_daily) >= -daily_loss_halt_amount

\* C6: validate_trade accepts a signal iff the guard is not halted, the
\* total_cost is within the strategy's position size, the open count is
\* below max_concurrent_positions, open exposure + total_cost is within
\* max_daily_exposure and today's P&L is not below -daily_loss_halt_amount;
\* values exactly at a cost, exposure or loss bound are accepted.
C6_AcceptsIff == [][ValidationEnds => (pc' = "create" <=> Acceptable(signal'))]_vars

\* A signal accepted with cost, exposure and loss each exactly at its bound.
C6_Witness ==
    /\ pc = "create"
    /\ signal.total_cost = _get_max_position_size(signal.strategy)
    /\ current_exposure + signal.total_cost = max_daily_exposure
    /\ today_pnl = -daily_loss_halt_amount

\* A step of a validate_trade call.
ValidationStep == pc \in {"idle", "exposure", "pnl"} /\ pc' # pc

\* C7: when validate_trade, the earlier checks passed, finds today's P&L
\* strictly below -daily_loss_halt_amount it rejects and sets the halt with
\* the daily-loss reason; in no other case does validate_trade change the
\* guard's state, and it never changes consecutive_fails.
C7_DailyLossHalt ==
    [][ ValidationStep =>
          /\ consecutive_fails' = consecutive_fails
          /\ IF pc = "pnl" /\ _get_today_pnl(pnl_daily) < -daily_loss_halt_amount
             THEN /\ pc' = "reject"
                  /\ trading_halted'
                  /\ halt_reason' = "Daily loss limit exceeded"
                  /\ reason' = <<"Daily loss limit exceeded">>
             ELSE UNCHANGED <<trading_halted, halt_reason>> ]_vars

\* A validation has halted trading on the daily loss.
C7_Witness ==
    /\ pc = "reject"
    /\ reason = <<"Daily loss limit exceeded">>
    /\ trading_halted
    /\ halt_reason = "Daily loss limit exceeded"
    /\ today_pnl < -daily_loss_halt_amount

\* The step at which the executor returns from a rejected signal.
RejectionReturns == pc = "reject" /\ pc' = "idle"

\* C8: when the guard rejects a signal the executor calls
\* record_trade_result exactly once for it, with success = false, which
\* advances the consecutive-failure counter.
C8_RejectionNotified ==
    [][ RejectionReturns =>
          /\ record_calls'[signal.position_id] = <<FALSE>>
          /\ consecutive_fails' = consecutive_fails + 1 ]_vars

\* C9: when the guard rejects a signal, afterwards the store holds a record
\* for its position_id with status failed and a failure reason carrying the
\* rejection reason, a trade_failed event is logged, and the signal is not
\* put back on the queue.
C9_RejectionPersisted ==
    [][ RejectionReturns =>
          /\ signal.position_id \in DOMAIN positions'
          /\ positions'[signal.position_id].status = "failed"
          /\ positions'[signal.position_id].failure_reason = <<"Risk check failed">> \o reason
          /\ [ event_type  |-> "trade_failed",
               position_id |-> signal.position_id,
               level       |-> "ERROR" ] \in events_log'
          /\ \A i \in DOMAIN signal_queue' :
                signal_queue'[i].position_id # signal.position_id ]_vars

\* The step at which _execute_dry_run or _execute_live returns.
ExecutionEnds == pc \in {"dry_run", "live_done", "live_timeout"} /\ pc' = "record"

\* The result recorded for position p matches how its execution ended; a
\* position that ended open may have been closed by the resolver since.
RecordedOnce(p) ==
    /\ Len(record_calls'[p]) = 1
    /\ record_calls'[p][1] <=> positions'[p].status \in {"open", "closed"}
    /\ ~record_calls'[p][1] <=> positions'[p].status = "failed"

\* C10: for every signal that passed validation, record_trade_result is
\* called exactly once, after execution ends, with success = true iff the
\* position ended open and success = false iff it ended failed.
C10_ResultRecordedOnce ==
    [][ /\ ExecutionEnds =>
              /\ success' <=> positions'[signal.position_id].status = "open"
              /\ ~success' <=> positions'[signal.position_id].status = "failed"
        /\ record_calls' # record_calls =>
              /\ pc = "record"
              /\ record_calls[signal.position_id] = <<>>
              /\ record_calls' = [record_calls EXCEPT ![signal.position_id] = <<success>>]
        /\ \A p \in Ids :
              IF p \in DOMAIN positions' /\ (pc' = "idle" \/ signal'.position_id # p)
              THEN RecordedOnce(p)
              ELSE record_calls'[p] = <<>> ]_vars

\* Live mode: one validated signal recorded as a success, one as a failure.
C10_Witness ==
    /\ ~settings.dry_run
    /\ \E p, q \in DOMAIN positions :
          /\ record_calls[p] = <<TRUE>> /\ positions[p].status \in {"open", "closed"}
          /\ record_calls[q] = <<FALSE>> /\ positions[q].status = "failed"

\* The step at which _execute_live returns after the wait timed out.
TimeoutReturns == pc = "live_timeout" /\ pc' = "record"

\* C11: live mode, the placement does not complete within
\* order_timeout_seconds: the position ends failed with failure reason
\* "Order timeout" and the execution returns failure, which
\* record_trade_result counts as one more consecutive failure.
C11_TimeoutRecorded ==
    [][ TimeoutReturns =>
          /\ positions'[signal.position_id].status = "failed"
          /\ positions'[signal.position_id].failure_reason = <<"Order timeout">>
          /\ ~success' ]_vars

\* C12: after a live placement that times out, cancel_order is attempted
\* for every order of the signal that was placed on the exchange.
C12_TimeoutCancels ==
    [][ TimeoutReturns =>
          \A i \in PlacedLegs(signal) :
              OrderId(signal.position_id, i) \in cancel_attempts' ]_vars

\* |slippage| of a fill at fill_price against the leg's price is within
\* max_slippage_pct (the setting is in hundredths of a percent).
SlippageWithin(price, fill_price) ==
    Abs(fill_price - price) * 10000 <= settings.max_slippage_pct * price

\* Every leg returned a response, reported filled, within the slippage bound.
EveryLegFilled(sig, results) ==
    \A i \in DOMAIN sig.legs :
        /\ results[i].kind = "dict"
        /\ DOMAIN results[i].body # {}
        /\ "status" \in DOMAIN results[i].body
        /\ results[i].body.status = "filled"
        /\ SlippageWithin(sig.legs[i].price,
                          IF "fill_price" \in DOMAIN results[i].body
                          THEN results[i].body.fill_price
                          ELSE sig.legs[i].price)

\* The order ids the leg results carry.
ResultOrderIds(results) ==
    { results[i].body.order_id :
        i \in {j \in DOMAIN results :
                 results[j].kind = "dict" /\ "order_id" \in DOMAIN results[j].body} }

\* C13: live mode without timeout: a position becomes open only if every
\* leg returned a response with status filled and |slippage| <=
\* max_slippage_pct; if any leg raised, returned nothing, was not filled or
\* exceeded the bound, the position is recorded failed and cancel_order is
\* attempted for every leg result that carries an order_id.  (Stated for
\* every tuple of leg results: either the outcome is as claimed or the step
\* is not the one _execute_live takes on those results.)
C13_OpenOnlyIfAllFilled ==
    [][ (pc = "live_done" /\ pc' = "record") =>
          \A results \in GatherResults(signal) :
              \/ /\ positions'[signal.position_id].status = "open"
                        => EveryLegFilled(signal, results)
                 /\ ~EveryLegFilled(signal, results) =>
                        /\ positions'[signal.position_id].status = "failed"
                        /\ ResultOrderIds(results) \subseteq cancel_attempts'
              \/ ~LiveCompleted(results) ]_vars

\* A failed verification of fully placed orders: every order was cancelled.
C13_Witness ==
    \E p \in DOMAIN positions :
        /\ positions[p].status = "failed"
        /\ positions[p].failure_reason = <<"Fill verification failed">>
        /\ \A i \in DOMAIN positions[p].legs :
              OrderId(p, i) \in exchange_orders \cap cancel_attempts

\* The step at which _execute_dry_run returns.
DryRunReturns == pc = "dry_run" /\ pc' = "record"

\* The order is a synthetic fill of the leg.
SyntheticFill(order, leg) ==
    /\ order.outcome = leg.outcome
    /\ order.price = leg.price
    /\ order.fill_price = leg.price
    /\ order.size = leg.size_tokens
    /\ order.filled = leg.size_tokens
    /\ order.status = "filled"
    /\ order.slippage_pct = 0

\* C14: dry-run mode: every validated signal ends as an open position
\* holding exactly one synthetic filled order per leg (price leg.price, size
\* leg.size_tokens, slippage 0) with actual_total_cost the sum over the legs
\* of leg.price x leg.size_tokens, and no order is ever placed or cancelled
\* at the exchange.
C14_DryRunFills ==
    [][ /\ DryRunReturns =>
              LET position == positions'[signal.position_id]
              IN  /\ success'
                  /\ position.status = "open"
                  /\ Len(position.orders) = Len(signal.legs)
                  /\ \A i \in DOMAIN signal.legs :
                        SyntheticFill(position.orders[i], signal.legs[i])
                  /\ position.actual_total_cost =
                        SumSeq([i \in DOMAIN signal.legs |->
                                  (signal.legs[i].price * signal.legs[i].size_tokens) \div Scale])
        /\ (settings.dry_run /\ pc = "create") => pc' \in {"create", "dry_run"}
        /\ settings.dry_run => exchange_orders' = {} /\ cancel_attempts' = {} ]_vars

\* A dry-run execution has just opened a two-leg position.
C14_Witness ==
    /\ settings.dry_run
    /\ pc = "record"
    /\ success
    /\ positions[signal.position_id].status = "open"
    /\ Len(positions[signal.position_id].orders) = 2

\* The step in which the engine's loop body runs on the snapshot it holds.
EngineEmits == market # NoMarket /\ market' = NoMarket

\* The positions on signal_queue the step has added.
NewSignals == (Len(signal_queue) + 1) .. Len(signal_queue')

\* C15: for every one_of_many or yes_no signal the engine emits,
\* total_cost is the sum of the leg prices, expected_edge is
\* (1 - sum of leg prices) x 100, and expected_edge >= min_arb_edge_pct
\* (an edge equal to the minimum is emitted).
C15_ArbEdge ==
    [][ EngineEmits =>
          \A i \in NewSignals :
              LET sig == signal_queue'[i]
                  prices == SumSeq([l \in DOMAIN sig.legs |-> sig.legs[l].price])
              IN  sig.strategy \in {"one_of_many", "yes_no"} =>
                      /\ sig.total_cost = prices
                      /\ sig.expected_edge = (Scale - prices) * 100
                      /\ sig.expected_edge * 100 >= settings.min_arb_edge_pct * Scale ]_vars

\* An arbitrage signal whose edge equals the minimum is on the queue.
C15_Witness ==
    \E i \in DOMAIN signal_queue :
        /\ signal_queue[i].strategy \in {"one_of_many", "yes_no"}
        /\ signal_queue[i].expected_edge * 100 = settings.min_arb_edge_pct * Scale

\* The sizes of all ask levels of the snapshot's outcome with that name
\* (compared without case), summed.
AskSize(m, name) ==
    LET o == CHOOSE x \in {m.outcomes[i] : i \in DOMAIN m.outcomes} :
                 Upper(x.outcome) = Upper(name)
    IN  SumSeq([i \in DOMAIN o.orderbook.asks |-> o.orderbook.asks[i].size])

\* C16: for every emitted signal and every leg, the cumulative ask size of
\* the leg's outcome in the snapshot is at least leg.size_tokens.
C16_DepthCoversLegs ==
    [][ EngineEmits =>
          \A i \in NewSignals :
              \A l \in DOMAIN signal_queue'[i].legs :
                  AskSize(market, signal_queue'[i].legs[l].outcome)
                      >= signal_queue'[i].legs[l].size_tokens ]_vars

\* A signal was emitted from a snapshot whose asks hold exactly the tokens
\* of one of its legs.
C16_Witness ==
    \E input \in scanned : \E i \in DOMAIN signal_queue :
        \E l \in DOMAIN signal_queue[i].legs :
            /\ signal_queue[i].market_id = input.market.market_id
            /\ AskSize(input.market, signal_queue[i].legs[l].outcome)
                  = signal_queue[i].legs[l].size_tokens

\* The loop body runs the binary detector on the snapshot it holds.
BinaryDetectorRuns == EngineEmits /\ GatePassed(market) /\ settings.enable_yes_no

\* The step has put a yes_no signal on the queue.
YesNoEmitted == \E i \in NewSignals : signal_queue'[i].strategy = "yes_no"

\* Exactly two outcomes, named {YES, NO} or {UP, DOWN} without regard to case.
BinaryNames(m) ==
    /\ Len(m.outcomes) = 2
    /\ {Upper(m.outcomes[i].outcome) : i \in DOMAIN m.outcomes}
          \in { {"YES", "NO"}, {"UP", "DOWN"} }

\* Both asks are known and ask_a + ask_b <= 1 - min_arb_edge_pct / 100.
AsksWithinEdge(m) ==
    /\ \A i \in DOMAIN m.outcomes : m.outcomes[i].orderbook.best_ask # None
    /\ SumSeq([i \in DOMAIN m.outcomes |->
                 CHOOSE a \in m.outcomes[i].orderbook.best_ask : TRUE]) * 10000
          <= Scale * 10000 - settings.min_arb_edge_pct * Scale

\* The market closes no sooner than min_time_to_close_minutes from now.
FarFromClose(m) ==
    \E seconds_left \in m.seconds_left :
        seconds_left >= settings.min_time_to_close_minutes * 60

\* Each side's spread is unreported (None) or at most max_spread_yes_no.
SpreadsWithin(m) ==
    \A i \in DOMAIN m.outcomes :
        \A spread \in m.outcomes[i].orderbook.spread_pct :
            spread <= settings.max_spread_yes_no

\* Each side's asks hold the tokens half of max_arb_position_size buys at
\* the side's best ask.
SidesCovered(m) ==
    \A i \in DOMAIN m.outcomes :
        \A a \in m.outcomes[i].orderbook.best_ask :
            AskSize(m, m.outcomes[i].outcome) * a >= (max_arb_position_size \div 2) * Scale

\* C17 as stated: the binary detector produces a signal if and only if the
\* snapshot has exactly two outcomes named {YES, NO} or {UP, DOWN} and
\* ask_a + ask_b <= 1 - min_arb_edge_pct / 100.
C17_BinaryIffNamesAndEdge ==
    [][ BinaryDetectorRuns =>
          (YesNoEmitted <=> BinaryNames(market) /\ AsksWithinEdge(market)) ]_vars

\* C17 amended: the binary detector produces a signal if and only if the
\* snapshot has exactly two outcomes named {YES, NO} or {UP, DOWN}, closes
\* no sooner than min_time_to_close_minutes from now, has a best ask on both
\* sides with ask_a + ask_b <= 1 - min_arb_edge_pct / 100, each side's
\* spread is unreported or at most max_spread_yes_no, and each side's asks
\* cover the tokens half of max_arb_position_size buys at its best ask.
C17_BinaryIff ==
    [][ BinaryDetectorRuns =>
          (YesNoEmitted <=>
              /\ BinaryNames(market)
              /\ FarFromClose(market)
              /\ AsksWithinEdge(market)
              /\ SpreadsWithin(market)
              /\ SidesCovered(market)) ]_vars

\* A yes_no signal was emitted for a market whose outcomes are DOWN and UP.
C17_Witness ==
    \E i \in DOMAIN signal_queue :
        /\ signal_queue[i].strategy = "yes_no"
        /\ signal_queue[i].legs[1].outcome = "UP"
        /\ signal_queue[i].legs[2].outcome = "DOWN"

\* C20: while a market stays in the late window it gets at most one
\* late_market signal, however many of its snapshots are processed.  (In a
\* run of EngineSpec the scanner presents one snapshot again and again, so
\* two late signals of one market come from the same window.)
C20_OneLateSignalPerWindow ==
    \A i, j \in DOMAIN signal_queue :
        ( /\ i < j
          /\ signal_queue[i].strategy = "late_market"
          /\ signal_queue[j].strategy = "late_market"
          /\ signal_queue[i].market_id = signal_queue[j].market_id )
        => \E input \in scanned :
              /\ input.market.market_id = signal_queue[i].market_id
              /\ \A seconds_left \in input.market.seconds_left :
                    ~is_within_late_window(seconds_left,
                                           settings.late_market_window_start,
                                           settings.late_market_window_end)

\* The step in which _check_and_resolve closes the position it examines.
ResolverCloses == rpc = "loop" /\ rpc' = "rollup"

\* The two names are equal after lower-casing and stripping.
SameOutcome(a, b) == LowerStrip(a) = LowerStrip(b)

\* The reference law: an arbitrage position earns the size_tokens of its
\* first leg that matches the winner, a late-market position those of its
\* single leg if it matches, each less actual_total_cost; without a match
\* the cost is lost; any other strategy earns 0.
ReferencePnl(position, winner) ==
    LET legs == position.legs
        matching == {i \in DOMAIN legs : SameOutcome(legs[i].outcome, winner)}
        first == CHOOSE i \in matching : \A j \in matching : i <= j
    IN  CASE position.strategy \in {"one_of_many", "yes_no"} ->
                IF matching = {} THEN -position.actual_total_cost
                ELSE legs[first].size_tokens - position.actual_total_cost
          [] position.strategy = "late_market" ->
                IF 1 \in matching THEN legs[1].size_tokens - position.actual_total_cost
                ELSE -position.actual_total_cost
          [] OTHER -> 0

\* C18: the P&L the resolver writes when it closes a position equals the
\* reference law, and the position is closed.
C18_PnlReferenceLaw ==
    [][ ResolverCloses =>
          LET before == Head(open_positions)
              after == positions'[before.position_id]
          IN  /\ after.status = "closed"
              /\ after.realized_pnl = Some(ReferencePnl(before, after.winner))
              /\ resolved'.pnl = ReferencePnl(before, after.winner) ]_vars

\* An arbitrage position was closed on a winner that matches one of its
\* legs only without regard to case and surrounding blanks.
C18_Witness ==
    \E p \in DOMAIN positions :
        /\ positions[p].status = "closed"
        /\ positions[p].strategy = "yes_no"
        /\ positions[p].winner = "YES "
        /\ positions[p].legs[1].outcome = "Yes"
        /\ positions[p].realized_pnl
              = Some(positions[p].legs[1].size_tokens - positions[p].actual_total_cost)

\* C19: every yes_no or one_of_many position opened from a detector signal
\* and closed with a winner that matches one of its legs has
\* realized_pnl > 0.
C19_ArbAlwaysProfits ==
    \A p \in DOMAIN positions :
        ( /\ positions[p].status = "closed"
          /\ positions[p].strategy \in {"one_of_many", "yes_no"}
          /\ \E i \in DOMAIN positions[p].legs :
                SameOutcome(positions[p].legs[i].outcome, positions[p].winner) )
        => \A pnl \in positions[p].realized_pnl : pnl > 0

\* The late_market signals among the signals a pass put on signal_queue.
NewLateSignals == {i \in NewSignals : signal_queue'[i].strategy = "late_market"}

\* The 30 s wait for a snapshot ran out.
DequeueTimedOut == market = NoMarket /\ market' = NoMarket /\ issued' = issued

\* C21: once a late signal was emitted for a market, a later pass over a
\* snapshot of that market emits no late signal while the market is in the
\* dedup set; a pass that emits no late signal adds nothing to the set, a
\* pass that emits one leaves the market in it (unless that pass is a 200th
\* one); and the set loses members only by being emptied, in the 200th
\* processed snapshot or when the wait for a snapshot times out.
C21_DedupUntilCleared ==
    [][ /\ (EngineEmits /\ market.market_id \in _recently_signaled)
              => NewLateSignals = {}
        /\ (EngineEmits /\ NewLateSignals = {})
              => _recently_signaled' \subseteq _recently_signaled
        /\ (EngineEmits /\ NewLateSignals # {} /\ cleanup_counter' # 0)
              => market.market_id \in _recently_signaled'
        /\ ~(_recently_signaled \subseteq _recently_signaled')
              => /\ _recently_signaled' = {}
                 /\ \/ EngineEmits /\ cleanup_counter = CleanupPeriod - 1
                    \/ DequeueTimedOut ]_vars

\* A market got its late signal, and snapshots of it processed afterwards
\* were turned away: it is in the dedup set, two further passes were
\* counted and signal_queue still holds that one signal.
C21_Witness ==
    /\ market = NoMarket
    /\ cleanup_counter >= 3
    /\ Len(signal_queue) = 1
    /\ signal_queue[1].strategy = "late_market"
    /\ signal_queue[1].market_id \in _recently_signaled

\* The market's data names no winner: no winner field, and no entry of
\* tokens or outcomes that is marked winner and carries an outcome name.
NamesNoWinner(market_data) ==
    /\ Get(market_data, "winner", "") = ""
    /\ \A key \in {"tokens", "outcomes"} :
          LET items == Get(market_data, key, <<>>)
          IN  \A i \in DOMAIN items :
                  Get(items[i], "winner", FALSE) =>
                      /\ Get(items[i], "outcome", "") = ""
                      /\ (key = "outcomes" => Get(items[i], "name", "") = "")

\* The market fetch failed, the market is neither resolved nor closed, or
\* its data names no winner.
Unsettled(fetched) ==
    \/ fetched = None
    \/ \E market_data \in fetched :
          \/ ~(Get(market_data, "resolved", FALSE) \/ Get(market_data, "closed", FALSE))
          \/ NamesNoWinner(market_data)

\* C22: when the resolver examines a position and the fetch failed, the
\* market has not settled or no winner can be extracted, the store is left
\* as it was: the position is still open without realized_pnl, the rollup
\* and the event log are untouched.  And every tick reads all the positions
\* that are open, so the position is examined again.
C22_UnsettledLeftOpen ==
    [][ /\ \A fetched \in MarketResponses :
              (Unsettled(fetched) /\ ResolverCheckOn(fetched)) =>
                  /\ positions' = positions
                  /\ pnl_daily' = pnl_daily
                  /\ events_log' = events_log
                  /\ positions'[Head(open_positions).position_id].status = "open"
                  /\ positions'[Head(open_positions).position_id].realized_pnl = None
        /\ (rpc = "sleep" /\ rpc' = "loop") =>
              \A p \in OpenIds(positions) :
                  \E i \in DOMAIN open_positions' : open_positions'[i].position_id = p ]_vars

\* A pass of the resolver closed the newer of two open positions and left
\* the older one open: the older one was in the snapshot the pass worked
\* through, and the pass is over.
C22_Witness ==
    /\ rpc = "sleep"
    /\ \E p, q \in DOMAIN positions :
          /\ positions[p].opened_at < positions[q].opened_at
          /\ positions[p].status = "open"
          /\ positions[p].realized_pnl = None
          /\ positions[q].status = "closed"

\* The positions the resolver has closed (all of them today: the model has
\* one date).
ClosedIds == {p \in DOMAIN positions : positions[p].status = "closed"}

ClosedPnl == [p \in ClosedIds |-> CHOOSE v \in positions[p].realized_pnl : TRUE]

\* C23: whenever the resolver is not between closing a position and
\* updating the rollup, today's rollup counts the closed positions, sums
\* their realized_pnl, counts those with a positive one, has win_rate =
\* winning_trades / total_trades x 100, and its strategy_pnl values sum to
\* total_pnl; there is no rollup while nothing is closed.
C23_RollupMatchesClosed ==
    rpc # "rollup" =>
        IF ClosedIds = {}
        THEN pnl_daily = <<>>
        ELSE /\ pnl_daily.total_trades = Cardinality(ClosedIds)
             /\ pnl_daily.total_pnl = SumOver(ClosedIds, ClosedPnl)
             /\ pnl_daily.winning_trades = Cardinality({p \in ClosedIds : ClosedPnl[p] > 0})
             /\ pnl_daily.winning_trades <= pnl_daily.total_trades
             /\ pnl_daily.win_rate.num * pnl_daily.total_trades
                    = pnl_daily.winning_trades * 100 * pnl_daily.win_rate.den
             /\ SumOver(DOMAIN pnl_daily.strategy_pnl, pnl_daily.strategy_pnl)
                    = pnl_daily.total_pnl

\* Two positions of different strategies are closed, one at a profit and
\* one at a loss, and the rollup has taken both in.
C23_Witness ==
    /\ rpc # "rollup"
    /\ \E p, q \in ClosedIds :
          /\ positions[p].strategy # positions[q].strategy
          /\ ClosedPnl[p] > 0
          /\ ClosedPnl[q] < 0
    /\ pnl_daily.total_trades = 2

\* C26: when validate_trade makes its daily-loss check (and the resolver is
\* not in the middle of a resolution), the P&L it reads is the sum of the
\* realized_pnl of the positions the resolver closed today; and if that
\* sum is a loss beyond daily_loss_halt_amount, the check halts trading.
C26_GuardReadsResolvedPnl ==
    [][ (pc = "pnl" /\ pc' # "pnl" /\ rpc # "rollup") =>
            /\ today_pnl' = SumOver(ClosedIds, ClosedPnl)
            /\ SumOver(ClosedIds, ClosedPnl) < -daily_loss_halt_amount
                  => trading_halted' ]_vars

\* C25: under fair scheduling of the executor every position record that
\* is pending becomes open or failed.
C25_PendingLeaves ==
    \A p \in Ids :
        (p \in DOMAIN positions /\ positions[p].status = "pending")
            ~> (p \in DOMAIN positions /\ positions[p].status \in {"open", "failed"})

\* A live execution that timed out has ended and its position is failed.
C25_Witness ==
    /\ ~settings.dry_run
    /\ pc = "record"
    /\ positions[signal.position_id].status = "failed"
    /\ positions[signal.position_id].failure_reason = <<"Exception", "UnboundLocalError">>

\* The place of a strategy's detector in the loop body.
DetectorRank(strategy) ==
    CASE strategy = "one_of_many" -> 1
      [] strategy = "yes_no" -> 2
      [] strategy = "late_market" -> 3

\* The strategies of the signals a pass put on signal_queue.
NewStrategies == {signal_queue'[i].strategy : i \in NewSignals}

\* C27: a pass of the engine loop appends to signal_queue, behind what is
\* already there, at most one signal per detector, in the order one-of-many,
\* yes/no, late-market; a detector contributes its signal exactly when it is
\* enabled and returns one; and the next snapshot is taken in a later step,
\* which puts no signal.
C27_DetectorOrder ==
    [][ /\ EngineEmits =>
              /\ SubSeq(signal_queue', 1, Len(signal_queue)) = signal_queue
              /\ \A i, j \in NewSignals :
                    i < j => DetectorRank(signal_queue'[i].strategy)
                                < DetectorRank(signal_queue'[j].strategy)
              /\ GatePassed(market) =>
                    /\ "one_of_many" \in NewStrategies
                          <=> /\ settings.enable_one_of_many
                              /\ _check_one_of_many_arb(market, 0) # None
                    /\ "yes_no" \in NewStrategies
                          <=> /\ settings.enable_yes_no
                              /\ _check_yes_no_arb(market, 0) # None
                    /\ "late_market" \in NewStrategies
                          <=> /\ settings.enable_late_market
                              /\ _check_late_market(market, btc_feed, 0) # None
        /\ (market = NoMarket /\ market' # NoMarket) => signal_queue' = signal_queue ]_vars

\* One snapshot gave two signals, which are on signal_queue in the order of
\* their detectors: yes/no first, late-market second.
C27_Witness ==
    /\ Len(signal_queue) = 2
    /\ signal_queue[1].strategy = "yes_no"
    /\ signal_queue[2].strategy = "late_market"
    /\ signal_queue[1].market_id = signal_queue[2].market_id
    /\ cleanup_counter = 1

\* late_market_window_end <= s <= late_market_window_start
InLateWindow(s) ==
    settings.late_market_window_end <= s /\ s <= settings.late_market_window_start

\* The snapshot as it would be with s seconds to its close.
ClosingIn(m, s) == [m EXCEPT !.seconds_left = Some(s)]

\* The hot loop is running and has the market on its watchlist.
OnWatchlist(input) ==
    /\ settings.enable_late_market
    /\ "hot_loop_interval_ms" \in DOMAIN settings
    /\ input.market.is_btc_5m
    /\ input.market.seconds_left # None

\* C24: the late detector emits for a snapshot exactly when its time to
\* close is within [late_market_window_end, late_market_window_start], both
\* ends included, and its other gates pass (they are those that pass with
\* the time to close at the window's end); a hot-loop tick pushes a
\* watchlist market only when the time to close it reads is within those
\* bounds, and at every such reading it can push as soon as market_queue
\* has room.
C24_LateWindowInclusive ==
    [][ /\ (EngineEmits /\ GatePassed(market) /\ settings.enable_late_market) =>
              ( "late_market" \in NewStrategies
                  <=> /\ market.seconds_left # None
                      /\ \A s \in market.seconds_left : InLateWindow(s)
                      /\ _check_late_market(
                            ClosingIn(market, settings.late_market_window_end),
                            btc_feed, 0) # None )
        /\ \A input \in scanned, secs \in HotLoopSeconds :
              /\ HotLoopPush(input, secs) => InLateWindow(secs)
              /\ ( /\ OnWatchlist(input)
                    /\ \A s \in input.market.seconds_left : s <= secs
                    /\ InLateWindow(secs)
                    /\ Len(market_queue) < MarketQueueCapacity )
                  => ENABLED HotLoopPush(input, secs) ]_vars

\* The detector emitted a late signal for a snapshot that was exactly
\* late_market_window_end seconds from its close.
C24_Witness ==
    \E i \in DOMAIN signal_queue :
        /\ signal_queue[i].strategy = "late_market"
        /\ signal_queue[i].seconds_to_close = settings.late_market_window_end

\* The step leaves the queue alone, puts items behind the ones it holds, or
\* takes the item at its front and hands it over as taken.
QueueStep(queue, queue_after, taken_after) ==
    \/ queue_after = queue
    \/ /\ Len(queue_after) > Len(queue)
       /\ SubSeq(queue_after, 1, Len(queue)) = queue
    \/ /\ queue # <<>>
       /\ queue_after = Tail(queue)
       /\ taken_after = Head(queue)

\* C28: market_queue and signal_queue never hold more items than their
\* capacity, and every step either leaves a queue as it is, appends to it,
\* or removes its first item, which is the one the consumer receives: items
\* leave in the order they were put, none twice and none skipped.
C28_BoundedFifo ==
    [][ /\ Len(market_queue') <= MarketQueueCapacity
        /\ Len(signal_queue') <= SignalQueueCapacity
        /\ QueueStep(market_queue, market_queue', market')
        /\ QueueStep(signal_queue, signal_queue', signal') ]_vars

\* market_queue is full and holds two different snapshots; the executor has
\* taken the first signal and the second is still on signal_queue.
C28_Witness ==
    /\ Len(market_queue) = MarketQueueCapacity
    /\ market_queue[1] # market_queue[Len(market_queue)]
    /\ signal.position_id = 1
    /\ Len(signal_queue) = 1
    /\ signal_queue[1].position_id = 2

\* C29: a producer is never left waiting on its consumer: whatever the
\* queues hold, the arb scan loop can go on from its enqueue (the item put
\* or, after the grace window, dropped), and so can the signal engine from
\* the puts of the snapshot it is processing.
C29_ProducersGoOn ==
    /\ ENABLED ArbScanPut
    /\ market # NoMarket => ENABLED EngineProcess

\* The components in the order a start-up has to start them: a component
\* comes after the ones it uses.
DependencyOrder ==
    <<"store", "exchange client", "price feed", "scanner", "signal engine", "executor",
      "resolver">>

\* The tasks started so far appear in that order.
RECURSIVE InOrder(_, _)
InOrder(started, order) ==
    IF started = <<>> THEN TRUE
    ELSE IF order = <<>> THEN FALSE
    ELSE IF Head(started) = Head(order) THEN InOrder(Tail(started), Tail(order))
    ELSE InOrder(started, Tail(order))

\* C30: start-up starts the tasks in dependency order - store, exchange
\* client, price feed, scanner, signal engine, executor, resolver - and once
\* the bot reports operational a resolver task is running.
C30_ResolverRunsOnceOperational ==
    /\ InOrder(tasks, DependencyOrder)
    /\ boot = "operational" => TaskRuns("resolver")

\* C38: an order reaches the exchange only for the signal being executed,
\* after validate_trade accepted it (reason "OK") and with its
\* pending position record in the store; an execution that stands at the
\* rejection returns without an order.
C38_OrderAfterAcceptance ==
    [][ /\ \A order_id \in exchange_orders' \ exchange_orders :
              /\ order_id[1] = signal.position_id
              /\ reason = <<"OK">>
              /\ order_id[1] \in DOMAIN positions
              /\ positions[order_id[1]].status = "pending"
        /\ pc = "reject" =>
              /\ exchange_orders' = exchange_orders
              /\ pc' \in {"reject", "idle"}
              /\ \A order_id \in exchange_orders : order_id[1] # signal.position_id ]_vars

\* Orders of the signal in execution are at the exchange, and an earlier
\* signal was rejected by the guard.
C38_Witness ==
    /\ pc \in {"live_done", "live_timeout"}
    /\ \E order_id \in exchange_orders : order_id[1] = signal.position_id
    /\ positions[signal.position_id].status = "pending"
    /\ \E e \in events_log : e.event_type = "trade_failed" /\ e.position_id # signal.position_id

\* The positions with status pending.
PendingIds == {p \in DOMAIN positions : positions[p].status = "pending"}

\* C40: the executor handles one signal at a time: at most one position is
\* pending, it is the position of the signal in execution, and the
\* validation of a signal starts only when no position is pending.
C40_OneSignalAtATime ==
    [][ /\ Cardinality(PendingIds) <= 1
        /\ \A p \in PendingIds : p = signal.position_id /\ pc # "idle"
        /\ (pc = "idle" /\ pc' # "idle") => PendingIds = {} ]_vars

\* The second signal of the run is pending while the position of the first
\* has its final status.
C40_Witness ==
    /\ PendingIds = {signal.position_id}
    /\ \E p \in DOMAIN positions : positions[p].status \in {"open", "failed"}

\* total_trades of today's rollup, 0 while there is none
RolledUpTrades(coll) == Get(coll, "total_trades", 0)

\* C39: a position is resolved at most once: the resolver closes only a
\* position that is open in the store, a closed record (its realized_pnl and
\* winner with it) never changes again, and the rollup counts one trade
\* more exactly in the step that follows a close.
C39_ResolvedOnce ==
    [][ /\ \A p \in DOMAIN positions :
              positions[p].status = "closed" => positions'[p] = positions[p]
        /\ (rpc = "loop" /\ rpc' = "rollup") =>
              /\ positions[Head(open_positions).position_id].status = "open"
              /\ positions'[Head(open_positions).position_id].status = "closed"
        /\ RolledUpTrades(pnl_daily') =
              RolledUpTrades(pnl_daily) + (IF rpc = "rollup" /\ rpc' # "rollup" THEN 1 ELSE 0) ]_vars

\* One position is closed and counted, and a tick of the resolver is
\* checking another one.
C39_Witness ==
    /\ rpc = "loop"
    /\ \E p \in DOMAIN positions :
          /\ positions[p].status = "closed"
          /\ p # Head(open_positions).position_id
    /\ RolledUpTrades(pnl_daily) = 1

\* C31: shutdown terminates every task: once stop() has cleared the running
\* flags, a task that has not returned still has a step to take, also when
\* it waits on an empty or a full queue; so when no step is left every loop
\* has returned.
C31_StopEndsEveryTask ==
    (boot = "stopped" /\ TaskRuns("executor") /\ ~ENABLED BotNext) =>
        /\ pc = "returned"
        /\ returned = {"scanner", "signal engine"}

\* C37: the first 30 s window without a message leaves the connection open
\* (the client sends a keepalive); a second consecutive silent window ends
\* with the connection closed, for a reconnect.
C37_SecondSilenceReconnects ==
    [][ (ws = "open" /\ silent' = silent + 1) =>
            IF silent = 0 THEN ws' = "open" ELSE ws' = "none" ]_vars

\* The listed market passes every filter of the arb scan and has one token
\* id per outcome.
EligibleListing(input) ==
    /\ input.gamma.active
    /\ input.gamma.volume >= settings.min_market_volume
    /\ \E seconds_to_close \in input.gamma.seconds_to_close :
          seconds_to_close >= settings.min_time_to_close_minutes * 60
    /\ Len(input.market.outcomes) >= 2
    /\ Len(input.market.outcomes) \in {input.gamma.clobTokenIds, input.gamma.tokens}

C35_NoLateSignalFromArbScan ==
    \A i \in DOMAIN signal_queue : signal_queue[i].strategy # "late_market"

\* C32: the feeder removes a market from the watch-list only when it has
\* expired or left the horizon: whenever a market leaves the watch-list, its
\* time to close is not in (0, watchlist_horizon_seconds].  A refresh whose
\* fetch fails or lists only part of the markets removes no market that is
\* still inside the horizon.
C32_PrunedOnlyOutsideHorizon ==
    [][ \A market_id \in DOMAIN _watchlist \ DOMAIN _watchlist' :
            LET secs == _watchlist[market_id].expires_at - now
            IN  ~(0 < secs /\ secs <= settings.watchlist_horizon_seconds) ]_vars

\* C33: the feeder is the only writer of the watch-list, so a market that is
\* not in the watch-list comes into it only by a step of the feeder, a step
\* that leaves the hot loop and market_queue as they are.
C33_PrunedStaysAbsent ==
    [][ DOMAIN _watchlist' \ DOMAIN _watchlist # {} =>
            UNCHANGED <<hot_todo, hot_market, market_queue>> ]_vars

\* The entries a step of the scanner has visited, when the step is one of
\* the hot loop; a step of the clock or of the signal engine visits none.
VisitedEntries ==
    LET Entries(todo) == {todo[i] : i \in DOMAIN todo}
    IN  IF hot_todo = <<>> /\ hot_market = None
        THEN {_watchlist[market_id] : market_id \in DOMAIN _watchlist} \ Entries(hot_todo')
        ELSE Entries(hot_todo) \ Entries(hot_todo')

\* C34: on a hot-loop tick a watched market whose time to close is <= 0 is
\* dropped from the watch-list and not enqueued; a market goes to the refresh
\* and is enqueued only if its time to close, as the tick read it, is in
\* [late_market_window_end, late_market_window_start]; and every snapshot
\* the hot loop enqueues carries the is_btc_5m flag.
C34_HotLoopAdmission ==
    [][ /\ (now' = now /\ Len(market_queue') >= Len(market_queue)) =>
              \A visited \in VisitedEntries :
                  visited.expires_at - now <= 0 =>
                      /\ visited.market_id \notin DOMAIN _watchlist'
                      /\ \A in_refresh \in hot_market' : in_refresh.market # visited
                      /\ Len(market_queue') > Len(market_queue) =>
                             market_queue'[Len(market_queue')].market_id # visited.market_id
        /\ \A in_refresh \in hot_market' \ hot_market :
              IF in_refresh.refreshed = None
              THEN /\ in_refresh.market \in VisitedEntries
                   /\ in_refresh.secs = in_refresh.market.expires_at - now
              ELSE \E waiting \in hot_market :
                      /\ waiting.market = in_refresh.market
                      /\ waiting.secs = in_refresh.secs
        /\ Len(market_queue') > Len(market_queue) =>
              \E in_refresh \in hot_market :
                  /\ in_refresh.secs >= settings.late_market_window_end
                  /\ in_refresh.secs <= settings.late_market_window_start
                  /\ in_refresh.secs > 0
                  /\ market_queue'[Len(market_queue')].market_id = in_refresh.market.market_id
                  /\ Get(market_queue'[Len(market_queue')], "is_btc_5m", FALSE) ]_vars

\* A tick has enqueued btc_a at its first second inside the window, and a
\* later tick, read at btc_a's close, has gone through the watch-list: btc_a
\* is gone and btc_b, 180 s from its close, is at the refresh.
C34_Witness ==
    /\ now = 240
    /\ market_queue # <<>>
    /\ market_queue[1].market_id = "btc_a"
    /\ market_queue[1].is_btc_5m
    /\ hot_todo = <<>>
    /\ "btc_a" \notin DOMAIN _watchlist
    /\ "btc_b" \in DOMAIN _watchlist
    /\ \E in_refresh \in hot_market :
          /\ in_refresh.market.market_id = "btc_b"
          /\ in_refresh.secs = settings.late_market_window_start

====
